---- MODULE Spec2Model ----
(***************************************************************************)
(* Model of the notebook execution engine of MCP_Server_Notebook:          *)
(* NotebookState (history, execution_context, global_execution_count),     *)
(* the cell tools, the execution tools (run_cell) and the notebook tools   *)
(* (saveNotebook / loadNotebook) of src/mcpContainer.                      *)
(*                                                                         *)
(* Python values are tagged records; a Python str is a sequence of atoms   *)
(* (text chunks, " " and "\n"), so that strip, split and join are          *)
(* computed rather than assumed.                                           *)
(*                                                                         *)
(* history, execution_context and global_execution_count are the fields of *)
(* NotebookState; files is the notebooks directory; sys_stdout is the      *)
(* stream installed as sys.stdout; callers holds, for every caller inside   *)
(* a tool, the statement it has reached and its locals; ret is what the last *)
(* operation returned (or the exception that left it).  steps counts the   *)
(* operations of a run and snapshot remembers the notebook as it was when  *)
(* saveNotebook last wrote it: both are history variables, read by no      *)
(* operation.                                                              *)
(*                                                                         *)
(* agent is the state dict of the agent graph of src/agentContainer        *)
(* (task, outputs, attempts, keep_refining, available_tools,               *)
(* notebook_data) together with the node the graph runs next; its field    *)
(* runs counts the calls of code_attempt and is read by no node.           *)
(***************************************************************************)
EXTENDS Integers, Sequences, FiniteSets, Bags, TLC

VARIABLES history, execution_context, global_execution_count, files, sys_stdout,
          callers, agent, ret, steps, snapshot

vars == <<history, execution_context, global_execution_count, files, sys_stdout,
          callers, agent, ret, steps, snapshot>>

(* ------------------------------ bounds --------------------------------- *)

\* most cells the history holds
MaxCells == 2

\* highest execution count handed out
MaxCount == 3

\* longest sequence of operations of the specifications that bound it
MaxOps == 5

(* --------------------------- Python values ----------------------------- *)

None == [t |-> "none"]

PyInt(n) == [t |-> "int", n |-> n]

PyText(s) == [t |-> "str", s |-> s]

IsNone(v) == v.t = "none"

\* a str holding a lone surrogate code point: json.dumps(ensure_ascii=False)
\* accepts it, the utf-8 encoder of a text file does not
SURROGATE == "\\ud800"

BuiltinsModule == [t |-> "module"]

\* an instance of a class T whose __repr__ raises
Unprintable == [t |-> "object", type |-> "T"]

\* str(v) raises
StrRaises(v) == v.t = "object"

\* str(v) for the values a cell can compute
StrOf(v) ==
    IF v.t = "int" THEN <<ToString(v.n)>>
    ELSE IF v.t = "str" THEN v.s
    ELSE IF v.t = "none" THEN <<"None">>
    ELSE <<"<module>">>

(* ------------------------------ str ops -------------------------------- *)

IsSpace(a) == a \in {" ", "\n"}

RECURSIVE LStrip(_)
LStrip(s) == IF s # <<>> /\ IsSpace(Head(s)) THEN LStrip(Tail(s)) ELSE s

RECURSIVE RStrip(_)
RStrip(s) ==
    IF s # <<>> /\ IsSpace(s[Len(s)]) THEN RStrip(SubSeq(s, 1, Len(s) - 1)) ELSE s

\* str.strip()
Strip(s) == RStrip(LStrip(s))

\* str.split('\n'): the segments between newlines, at least one
RECURSIVE SplitNL(_)
SplitNL(s) ==
    IF \A i \in 1..Len(s) : s[i] # "\n" THEN <<s>>
    ELSE LET k == CHOOSE i \in 1..Len(s) :
                      s[i] = "\n" /\ \A j \in 1..(i - 1) : s[j] # "\n"
         IN <<SubSeq(s, 1, k - 1)>> \o SplitNL(SubSeq(s, k + 1, Len(s)))

\* '\n'.join(lines)
RECURSIVE JoinNL(_)
JoinNL(lines) ==
    IF lines = <<>> THEN <<>>
    ELSE IF Len(lines) = 1 THEN lines[1]
    ELSE lines[1] \o <<"\n">> \o JoinNL(Tail(lines))

\* str.splitlines(): no line for an empty string or after a final newline
Splitlines(s) ==
    IF s = <<>> THEN <<>>
    ELSE IF s[Len(s)] = "\n" THEN SplitNL(SubSeq(s, 1, Len(s) - 1))
    ELSE SplitNL(s)

(* ------------------------------- cells --------------------------------- *)

EmptyDict == [t |-> "dict"]

\* MarkdownCell(source=...): no execution bookkeeping fields
MarkdownCell(source) ==
    [cell_type |-> "markdown", metadata |-> EmptyDict, source |-> source]

\* CodeCell(source=..., execution_count=...)
CodeCell(source, execution_count) ==
    [cell_type |-> "code", execution_count |-> execution_count,
     metadata |-> EmptyDict, source |-> source, outputs |-> <<>>]

\* an insert that puts the element at the end
ListInsertLast(l, index, e) == Append(l, e)

\* list.insert(index, e) for 0 <= index (an index past the end appends)
ListInsert(l, index, e) ==
    LET k == IF index > Len(l) THEN Len(l) ELSE index
    IN SubSeq(l, 1, k) \o <<e>> \o SubSeq(l, k + 1, Len(l))

\* a pop that removes nothing
ListPopNothing(l, index) == l

\* list.pop(index) for 0 <= index < len: the list without that element
ListPop(l, index) == SubSeq(l, 1, index) \o SubSeq(l, index + 2, Len(l))

(* ------------------------------ inputs --------------------------------- *)

ProgAssignAdd == <<"x = 2", "\n", "x + 3">>

ProgX == <<"x">>

ProgDivZero == <<"1/0">>

ProgExit == <<"raise SystemExit">>

ProgSurrogate == <<"x = chr(0xD800)">>

ProgPrint == <<"print('a')">>

\* what one print('a') writes to sys.stdout
PrintedA == <<"a", "\n">>

\* a binding that renders, then a binding whose rendering raises
ProgUnprintable == <<"y = 2", "\n", "x = type('T', (), {'__repr__': lambda s: 1/0})()">>

\* a print, then a last expression that needs a binding of x
ProgPrintThenX == <<"print('a')", "\n", "x">>

\* a print, then a last expression that raises
ProgPrintThenRaise == <<"print('a')", "\n", "1/0">>

\* a print, then an exception that is no Exception
ProgPrintThenExit == <<"print('a')", "\n", "raise SystemExit">>

\* a binding, then a last expression that raises
ProgBindThenRaise == <<"x = 2", "\n", "1/0">>

\* a binding, a statement that raises, and a last line that is no expression
ProgBindRaiseComment == <<"x = 2", "\n", "1/0", "\n", "# t">>

TextMd == <<"# t">>

BlankContents == {<<>>, <<" ", " ", " ">>}

CodeContents == {ProgAssignAdd, ProgX \o <<"\n">>, ProgDivZero, ProgExit}

\* the cells of the runs that look at what a failed cell leaves behind
FailingContents == {ProgBindThenRaise, ProgBindRaiseComment, ProgX}

MdContents == {TextMd}

UpdateContents == {ProgX}

Indices == (0 - 1)..MaxCells

(* ------------------------------ run_cell ------------------------------- *)

\* an execution context without bindings
EmptyCtx == [k \in {} |-> None]

\* the lines compile(line, "<cell>", "eval") accepts
ExprTokens == {"x", "x + 3", "1/0", "print('a')"}

\* the lines that are statements only
StmtTokens ==
    {"x = 2", "x = chr(0xD800)", "raise SystemExit", "# t", "y = 2",
     "x = type('T', (), {'__repr__': lambda s: 1/0})()"}

IsBlankLine(line) == \A i \in 1..Len(line) : line[i] = " "

\* compile(lines[-1], "<cell>", "eval") succeeds
IsExpression(line) == Len(line) = 1 /\ line[1] \in ExprTokens

\* the line is a complete statement for exec
IsStatement(line) ==
    IsBlankLine(line) \/ (Len(line) = 1 /\ line[1] \in ExprTokens \cup StmtTokens)

\* exec and eval put __builtins__ into the globals dict they are given
WithBuiltins(ctx) ==
    [k \in DOMAIN ctx \cup {"__builtins__"} |->
        IF k = "__builtins__" THEN BuiltinsModule ELSE ctx[k]]

Bind(ctx, name, v) ==
    [k \in DOMAIN ctx \cup {name} |-> IF k = name THEN v ELSE ctx[k]]

\* an evaluator that reads every expression as x + 3
EvalTokAdd(tok, ctx) ==
    IF "x" \notin DOMAIN ctx THEN [value |-> None, exc |-> "NameError", out |-> <<>>]
    ELSE IF ctx["x"].t = "int"
        THEN [value |-> PyInt(ctx["x"].n + 3), exc |-> "", out |-> <<>>]
    ELSE [value |-> None, exc |-> "TypeError", out |-> <<>>]

\* value, exception and printed text of one expression
EvalTok(tok, ctx) ==
    IF tok = "print('a')" THEN [value |-> None, exc |-> "", out |-> PrintedA]
    ELSE IF tok = "1/0" THEN [value |-> None, exc |-> "ZeroDivisionError", out |-> <<>>]
    ELSE IF "x" \notin DOMAIN ctx THEN [value |-> None, exc |-> "NameError", out |-> <<>>]
    ELSE IF tok = "x" THEN [value |-> ctx["x"], exc |-> "", out |-> <<>>]
    ELSE IF ctx["x"].t = "int"
        THEN [value |-> PyInt(ctx["x"].n + 3), exc |-> "", out |-> <<>>]
    ELSE [value |-> None, exc |-> "TypeError", out |-> <<>>]

\* one statement run against the context
ExecLine(line, st) ==
    IF IsBlankLine(line) \/ line[1] = "# t" THEN st
    ELSE IF line[1] = "x = 2" THEN [st EXCEPT !.ctx = Bind(st.ctx, "x", PyInt(2))]
    ELSE IF line[1] = "x = chr(0xD800)"
        THEN [st EXCEPT !.ctx = Bind(st.ctx, "x", PyText(<<SURROGATE>>))]
    ELSE IF line[1] = "y = 2" THEN [st EXCEPT !.ctx = Bind(st.ctx, "y", PyInt(2))]
    ELSE IF line[1] = "x = type('T', (), {'__repr__': lambda s: 1/0})()"
        THEN [st EXCEPT !.ctx = Bind(st.ctx, "x", Unprintable)]
    ELSE IF line[1] = "raise SystemExit" THEN [st EXCEPT !.exc = "SystemExit"]
    ELSE [st EXCEPT !.exc = EvalTok(line[1], st.ctx).exc,
                    !.out = @ \o EvalTok(line[1], st.ctx).out]

RECURSIVE ExecLines(_, _)
ExecLines(lines, st) ==
    IF lines = <<>> \/ st.exc # "" THEN st
    ELSE ExecLines(Tail(lines), ExecLine(Head(lines), st))

\* an exec that takes back the bindings of a run that raised
ExecRollback(text, ctx) ==
    LET lines == SplitNL(text)
        st0 == [ctx |-> WithBuiltins(ctx), exc |-> "", out |-> <<>>]
        st == ExecLines(lines, st0)
    IN IF \E i \in 1..Len(lines) : ~IsStatement(lines[i])
       THEN [st0 EXCEPT !.exc = "SyntaxError"]
       ELSE IF st.exc # "" THEN [st0 EXCEPT !.exc = st.exc, !.out = st.out]
       ELSE st

\* exec(text, context): compiled as a whole, then run statement by statement;
\* the bindings made before a raising statement stay
Exec(text, ctx) ==
    LET lines == SplitNL(text)
        st0 == [ctx |-> WithBuiltins(ctx), exc |-> "", out |-> <<>>]
    IN IF \E i \in 1..Len(lines) : ~IsStatement(lines[i])
       THEN [st0 EXCEPT !.exc = "SyntaxError"]
       ELSE ExecLines(lines, st0)

\* traceback.format_exc()
FormatExc(exc) == <<"Traceback (most recent call last):", "\n", exc, "\n">>

\* the exceptions `except Exception` does not catch
BaseOnly == {"SystemExit"}

\* the stream of the terminal and the io.StringIO() of a call
Terminal == "terminal"

Buffer == "buffer"

\* a restore written after the try block: only falling off its end reaches it
StreamAfterNoFinally(old_stdout, exit) == IF exit = "fall" THEN old_stdout ELSE Buffer

\* sys.stdout after the call: the finally clause runs on every way out of the
\* try block ("return", "fall", "raise")
StreamAfter(old_stdout, exit) == old_stdout

\* run_cell(code, context), with the sys.stdout it finds: the returned dict,
\* the context and the sys.stdout as the call left them, and the exception
\* that left the call, if any
run_cell(code, context, old_stdout) ==
    LET stripped == Strip(code)
        lines == Splitlines(stripped)
        last == lines[Len(lines)]
        pre == IF IsExpression(last) /\ Len(lines) > 1
               THEN Exec(JoinNL(SubSeq(lines, 1, Len(lines) - 1)), context)
               ELSE IF IsExpression(last) THEN [ctx |-> context, exc |-> "", out |-> <<>>]
               ELSE Exec(stripped, context)
        ev == IF IsExpression(last) /\ pre.exc = ""
              THEN EvalTok(last[1], pre.ctx)
              ELSE [value |-> None, exc |-> pre.exc, out |-> <<>>]
        ctx == IF IsExpression(last) /\ pre.exc = "" THEN WithBuiltins(pre.ctx)
               ELSE pre.ctx
        buffer == pre.out \o ev.out
    IN IF stripped = <<>>
       THEN [stdout |-> <<>>, result |-> None, error |-> None,
             context |-> context, raised |-> "",
             sys_stdout |-> StreamAfter(old_stdout, "return")]
       ELSE IF ev.exc \in BaseOnly
       THEN [stdout |-> <<>>, result |-> None, error |-> None,
             context |-> ctx, raised |-> ev.exc,
             sys_stdout |-> StreamAfter(old_stdout, "raise")]
       ELSE [stdout |-> buffer,
             result |-> ev.value,
             error |-> IF ev.exc = "" THEN None ELSE PyText(FormatExc(ev.exc)),
             context |-> ctx, raised |-> "",
             sys_stdout |-> StreamAfter(old_stdout, "fall")]

(* ------------------------------ messages ------------------------------- *)

Msg(text) == [text |-> text]

\* a message whose range ends at len
MsgInvalidIndexLen(text, h) == [text |-> text, total |-> Len(h), lo |-> 0, hi |-> Len(h)]

\* f"Invalid index. History contains {len} cells (0-{len-1})"
MsgInvalidIndex(text, h) == [text |-> text, total |-> Len(h), lo |-> 0, hi |-> Len(h) - 1]

\* f"Invalid index. Must be between 0 and {len} (inclusive)"
MsgInvalidInsert(h) == [text |-> "Invalid index. Must be between", lo |-> 0, hi |-> Len(h)]

\* a test that takes only the empty str for empty
IsEmptyContentExact(content) == content = <<>>

\* `not content or not content.strip()`
IsEmptyContent(content) == content = <<>> \/ Strip(content) = <<>>

(* ----------------------------- cell tools ------------------------------- *)

createMarkdownCell(content) ==
    /\ IF IsEmptyContent(content)
       THEN /\ ret' = [op |-> "createMarkdownCell", created |-> FALSE, index |-> 0 - 1,
                       message |-> Msg("Content cannot be empty")]
            /\ UNCHANGED history
       ELSE /\ Len(history) < MaxCells
            /\ history' = Append(history, MarkdownCell(Strip(content)))
            /\ ret' = [op |-> "createMarkdownCell", created |-> TRUE,
                       index |-> Len(history') - 1,
                       message |-> Msg("Markdown cell created successfully")]
    /\ UNCHANGED <<execution_context, global_execution_count, files, sys_stdout>>

createCodeCell(content) ==
    /\ IF IsEmptyContent(content)
       THEN /\ ret' = [op |-> "createCodeCell", created |-> FALSE, index |-> 0 - 1,
                       message |-> Msg("Content cannot be empty")]
            /\ UNCHANGED history
       ELSE /\ Len(history) < MaxCells
            /\ history' = Append(history, CodeCell(Strip(content), None))
            /\ ret' = [op |-> "createCodeCell", created |-> TRUE,
                       index |-> Len(history') - 1,
                       message |-> Msg("Code cell created successfully")]
    /\ UNCHANGED <<execution_context, global_execution_count, files, sys_stdout>>

insertMarkdownCell(content, index) ==
    /\ IF IsEmptyContent(content)
       THEN /\ ret' = [op |-> "insertMarkdownCell", created |-> FALSE, index |-> 0 - 1,
                       message |-> Msg("Content cannot be empty")]
            /\ UNCHANGED history
       ELSE IF index < 0 \/ index > Len(history)
       THEN /\ ret' = [op |-> "insertMarkdownCell", created |-> FALSE, index |-> 0 - 1,
                       message |-> MsgInvalidInsert(history)]
            /\ UNCHANGED history
       ELSE /\ Len(history) < MaxCells
            /\ history' = ListInsert(history, index,
                                     MarkdownCell(Strip(content)))
            /\ ret' = [op |-> "insertMarkdownCell", created |-> TRUE, index |-> index,
                       message |-> Msg("Markdown cell inserted successfully")]
    /\ UNCHANGED <<execution_context, global_execution_count, files, sys_stdout>>

insertCodeCell(content, index) ==
    /\ IF IsEmptyContent(content)
       THEN /\ ret' = [op |-> "insertCodeCell", created |-> FALSE, index |-> 0 - 1,
                       message |-> Msg("Content cannot be empty")]
            /\ UNCHANGED history
       ELSE IF index < 0 \/ index > Len(history)
       THEN /\ ret' = [op |-> "insertCodeCell", created |-> FALSE, index |-> 0 - 1,
                       message |-> MsgInvalidInsert(history)]
            /\ UNCHANGED history
       ELSE /\ Len(history) < MaxCells
            /\ history' = ListInsert(history, index,
                                     CodeCell(Strip(content), None))
            /\ ret' = [op |-> "insertCodeCell", created |-> TRUE, index |-> index,
                       message |-> Msg("Code cell inserted successfully")]
    /\ UNCHANGED <<execution_context, global_execution_count, files, sys_stdout>>

updateCell(index, content) ==
    /\ IF index < 0 \/ index >= Len(history)
       THEN /\ ret' = [op |-> "updateCell", updated |-> FALSE,
                       message |-> MsgInvalidIndex("Invalid index", history),
                       cell_type |-> ""]
            /\ UNCHANGED history
       ELSE IF IsEmptyContent(content)
       THEN /\ ret' = [op |-> "updateCell", updated |-> FALSE,
                       message |-> Msg("Content cannot be empty"), cell_type |-> ""]
            /\ UNCHANGED history
       ELSE /\ history' = [history EXCEPT ![index + 1].source = Strip(content)]
            /\ ret' = [op |-> "updateCell", updated |-> TRUE,
                       message |-> Msg("Cell updated successfully"),
                       cell_type |-> history[index + 1].cell_type]
    /\ UNCHANGED <<execution_context, global_execution_count, files, sys_stdout>>

deleteCell(index) ==
    /\ IF index < 0 \/ index >= Len(history)
       THEN /\ ret' = [op |-> "deleteCell", deleted |-> FALSE,
                       message |-> MsgInvalidIndex("Invalid index", history),
                       new_total |-> Len(history), deleted_cell_type |-> ""]
            /\ UNCHANGED history
       ELSE /\ history' = ListPop(history, index)
            /\ ret' = [op |-> "deleteCell", deleted |-> TRUE,
                       message |-> Msg("cell deleted successfully"),
                       new_total |-> Len(history'),
                       deleted_cell_type |-> history[index + 1].cell_type]
    /\ UNCHANGED <<execution_context, global_execution_count, files, sys_stdout>>

getCellContent(index) ==
    /\ ret' = IF index < 0 \/ index >= Len(history)
              THEN [op |-> "getCellContent", found |-> FALSE,
                    content |-> MsgInvalidIndex("Invalid index", history),
                    cell_type |-> "", execution_count |-> None, outputs |-> <<>>]
              ELSE [op |-> "getCellContent", found |-> TRUE,
                    content |-> PyText(history[index + 1].source),
                    cell_type |-> history[index + 1].cell_type,
                    execution_count |->
                        IF history[index + 1].cell_type = "code"
                        THEN history[index + 1].execution_count ELSE None,
                    outputs |->
                        IF history[index + 1].cell_type = "code"
                        THEN history[index + 1].outputs ELSE <<>>]
    /\ UNCHANGED <<history, execution_context, global_execution_count, files, sys_stdout>>

moveCell(from_index, to_index) ==
    /\ IF from_index < 0 \/ from_index >= Len(history)
       THEN /\ ret' = [op |-> "moveCell", moved |-> FALSE,
                       message |-> MsgInvalidIndex("Invalid from_index", history),
                       cell_type |-> ""]
            /\ UNCHANGED history
       ELSE IF to_index < 0 \/ to_index >= Len(history)
       THEN /\ ret' = [op |-> "moveCell", moved |-> FALSE,
                       message |-> MsgInvalidIndex("Invalid to_index", history),
                       cell_type |-> ""]
            /\ UNCHANGED history
       ELSE IF from_index = to_index
       THEN /\ ret' = [op |-> "moveCell", moved |-> TRUE,
                       message |-> Msg("Cell is already at the target position"),
                       cell_type |-> history[from_index + 1].cell_type]
            /\ UNCHANGED history
       ELSE /\ history' = ListInsert(ListPop(history, from_index), to_index,
                                     history[from_index + 1])
            /\ ret' = [op |-> "moveCell", moved |-> TRUE,
                       message |-> Msg("cell moved"),
                       cell_type |-> history[from_index + 1].cell_type]
    /\ UNCHANGED <<execution_context, global_execution_count, files, sys_stdout>>

(* ------------------ cell tools, statement by statement ------------------ *)

\* the callers whose requests the server handles at the same time
Callers == {"A", "B"}

\* a caller outside every tool
Idle == [pc |-> "idle"]

\* the three tests of moveCell: a failed or trivial move returns, any other
\* goes on to the pop
moveCellCheck(c, from_index, to_index) ==
    /\ callers[c].pc = "idle"
    /\ IF from_index < 0 \/ from_index >= Len(history)
       THEN /\ ret' = [op |-> "moveCell", moved |-> FALSE,
                       message |-> MsgInvalidIndex("Invalid from_index", history),
                       cell_type |-> ""]
            /\ UNCHANGED callers
       ELSE IF to_index < 0 \/ to_index >= Len(history)
       THEN /\ ret' = [op |-> "moveCell", moved |-> FALSE,
                       message |-> MsgInvalidIndex("Invalid to_index", history),
                       cell_type |-> ""]
            /\ UNCHANGED callers
       ELSE IF from_index = to_index
       THEN /\ ret' = [op |-> "moveCell", moved |-> TRUE,
                       message |-> Msg("Cell is already at the target position"),
                       cell_type |-> history[from_index + 1].cell_type]
            /\ UNCHANGED callers
       ELSE /\ callers' = [callers EXCEPT ![c] =
                             [pc |-> "move_checked", from_index |-> from_index,
                              to_index |-> to_index]]
            /\ UNCHANGED ret
    /\ UNCHANGED <<history, execution_context, global_execution_count, files, sys_stdout>>

\* cell = notebook_state.history.pop(from_index); an index that is no longer
\* in the list raises IndexError, which the handler turns into a failure
moveCellPop(c) ==
    /\ callers[c].pc = "move_checked"
    /\ IF callers[c].from_index >= Len(history)
       THEN /\ ret' = [op |-> "moveCell", moved |-> FALSE,
                       message |-> Msg("Failed to move cell"), cell_type |-> ""]
            /\ callers' = [callers EXCEPT ![c] = Idle]
            /\ UNCHANGED history
       ELSE /\ history' = ListPop(history, callers[c].from_index)
            /\ callers' = [callers EXCEPT ![c] =
                             [pc |-> "move_popped", from_index |-> @.from_index,
                              to_index |-> @.to_index,
                              cell |-> history[@.from_index + 1]]]
            /\ UNCHANGED ret
    /\ UNCHANGED <<execution_context, global_execution_count, files, sys_stdout>>

\* notebook_state.history.insert(to_index, cell) and the return
moveCellInsert(c) ==
    /\ callers[c].pc = "move_popped"
    /\ history' = ListInsert(history, callers[c].to_index, callers[c].cell)
    /\ ret' = [op |-> "moveCell", moved |-> TRUE, message |-> Msg("cell moved"),
               cell_type |-> callers[c].cell.cell_type]
    /\ callers' = [callers EXCEPT ![c] = Idle]
    /\ UNCHANGED <<execution_context, global_execution_count, files, sys_stdout>>

\* the test of deleteCell
deleteCellCheck(c, index) ==
    /\ callers[c].pc = "idle"
    /\ IF index < 0 \/ index >= Len(history)
       THEN /\ ret' = [op |-> "deleteCell", deleted |-> FALSE,
                       message |-> MsgInvalidIndex("Invalid index", history),
                       new_total |-> Len(history), deleted_cell_type |-> ""]
            /\ UNCHANGED callers
       ELSE /\ callers' = [callers EXCEPT ![c] =
                             [pc |-> "delete_checked", index |-> index]]
            /\ UNCHANGED ret
    /\ UNCHANGED <<history, execution_context, global_execution_count, files, sys_stdout>>

\* deleted_cell = notebook_state.history[index], the pop and the return; an
\* index that is no longer in the list raises IndexError
deleteCellPop(c) ==
    /\ callers[c].pc = "delete_checked"
    /\ IF callers[c].index >= Len(history)
       THEN /\ ret' = [op |-> "deleteCell", deleted |-> FALSE,
                       message |-> Msg("Failed to delete cell"),
                       new_total |-> Len(history), deleted_cell_type |-> ""]
            /\ UNCHANGED history
       ELSE /\ history' = ListPop(history, callers[c].index)
            /\ ret' = [op |-> "deleteCell", deleted |-> TRUE,
                       message |-> Msg("cell deleted successfully"),
                       new_total |-> Len(history'),
                       deleted_cell_type |-> history[callers[c].index + 1].cell_type]
    /\ callers' = [callers EXCEPT ![c] = Idle]
    /\ UNCHANGED <<execution_context, global_execution_count, files, sys_stdout>>

getHistoryInfo(c) ==
    /\ callers[c].pc = "idle"
    /\ ret' = [op |-> "getHistoryInfo",
               total_cells |-> Len(history),
               cell_types |-> [i \in 1..Len(history) |-> history[i].cell_type],
               code_cells |->
                   Cardinality({i \in 1..Len(history) : history[i].cell_type = "code"}),
               markdown_cells |->
                   Cardinality({i \in 1..Len(history) : history[i].cell_type = "markdown"}),
               executed_cells |->
                   Cardinality({i \in 1..Len(history) :
                                   /\ history[i].cell_type = "code"
                                   /\ ~IsNone(history[i].execution_count)}),
               global_execution_count |-> global_execution_count]
    /\ UNCHANGED <<history, execution_context, global_execution_count, files,
                   sys_stdout, callers>>

(* -------------------- run_cell, statement by statement ------------------- *)

\* the io.StringIO() a call makes: a new object per call, named here by the
\* number of steps taken when the call began
BufferOf(n) == "buffer" \o ToString(n)

\* the callers after text was written to a stream: it lands in the buffer of
\* the call that made the stream, if that call is still running
WriteTo(cs, stream, text) ==
    [c \in Callers |->
        IF cs[c].pc # "idle" /\ cs[c].stream = stream
        THEN [cs[c] EXCEPT !.buffer = @ \o text]
        ELSE cs[c]]

\* `buffer = io.StringIO(); old_stdout = sys.stdout; sys.stdout = buffer`
runCellEnter(c, code) ==
    /\ callers[c].pc = "idle"
    /\ callers' = [callers EXCEPT ![c] =
                      [pc |-> "try", code |-> code, stream |-> BufferOf(steps),
                       buffer |-> <<>>, old_stdout |-> sys_stdout,
                       result |-> None, error |-> None]]
    /\ sys_stdout' = BufferOf(steps)
    /\ UNCHANGED <<history, execution_context, global_execution_count, files, ret>>

\* the try block: what the code prints goes to the stream sys.stdout is then
runCellTry(c) ==
    /\ callers[c].pc = "try"
    /\ LET rc == run_cell(callers[c].code, execution_context, sys_stdout)
       IN /\ rc.raised = ""
          /\ execution_context' = rc.context
          /\ callers' = [WriteTo(callers, sys_stdout, rc.stdout) EXCEPT
                            ![c].pc = "finally",
                            ![c].result = rc.result,
                            ![c].error = rc.error]
    /\ UNCHANGED <<history, global_execution_count, files, sys_stdout, ret>>

\* `finally: sys.stdout = old_stdout`, then the return with buffer.getvalue()
runCellFinally(c) ==
    /\ callers[c].pc = "finally"
    /\ sys_stdout' = callers[c].old_stdout
    /\ ret' = [op |-> "run_cell", code |-> callers[c].code, raised |-> "",
               stdout |-> callers[c].buffer, result |-> callers[c].result,
               error |-> callers[c].error]
    /\ callers' = [callers EXCEPT ![c] = Idle]
    /\ UNCHANGED <<history, execution_context, global_execution_count, files>>

(* ---------------------------- NotebookState ----------------------------- *)

\* a reset that clears the execution counts and keeps the outputs
ResetCellsKeepOutputs(h) ==
    [i \in 1..Len(h) |->
        IF h[i].cell_type = "code" THEN [h[i] EXCEPT !.execution_count = None] ELSE h[i]]

\* a reset that clears the outputs and keeps the execution counts
ResetCellsKeepCount(h) ==
    [i \in 1..Len(h) |->
        IF h[i].cell_type = "code" THEN [h[i] EXCEPT !.outputs = <<>>] ELSE h[i]]

\* a reset that removes the cells that have run
ResetCellsDropExecuted(h) ==
    SelectSeq(h, LAMBDA cell : cell.cell_type # "code" \/ IsNone(cell.execution_count))

\* reset_execution_context: the cells with outputs and execution counts cleared
ResetCells(h) ==
    [i \in 1..Len(h) |->
        IF h[i].cell_type = "code"
        THEN [h[i] EXCEPT !.outputs = <<>>, !.execution_count = None]
        ELSE h[i]]

\* the counter value reset_execution_context leaves
ResetCount == 1

\* a counter that hands out its value and keeps it
NextCountStuck(count) == count

\* a counter that counts down
NextCountDown(count) == count - 1

\* get_next_execution_count: the counter after handing out its value
NextCount(count) == count + 1

\* get_user_variables: str() of every binding whose name has no "__" prefix
IsReserved(k) == k \in {"__builtins__"}

get_user_variables(ctx) ==
    [k \in {n \in DOMAIN ctx : ~IsReserved(n)} |-> StrOf(ctx[k])]

\* the dict comprehension of get_user_variables raises: a str(v) in it does
UserVariablesRaise(ctx) == \E k \in DOMAIN ctx : ~IsReserved(k) /\ StrRaises(ctx[k])

clearHistory ==
    /\ history' = ResetCells(<<>>)
    /\ execution_context' = EmptyCtx
    /\ global_execution_count' = ResetCount
    /\ ret' = [op |-> "clearHistory", cleared |-> TRUE,
               message |-> Msg("History cleared successfully"),
               previous_total |-> Len(history)]
    /\ UNCHANGED <<files, sys_stdout>>

restartKernel ==
    /\ history' = ResetCells(history)
    /\ execution_context' = EmptyCtx
    /\ global_execution_count' = ResetCount
    /\ ret' = [op |-> "restartKernel", restarted |-> TRUE,
               message |-> Msg("Kernel restarted successfully")]
    /\ UNCHANGED <<files, sys_stdout>>

(* -------------------------- execution tools ----------------------------- *)

\* the output records of one run: stream, then execute_result, then error
BuildOutputs(rc, count) ==
    (IF rc.stdout # <<>>
     THEN <<[output_type |-> "stream", name |-> "stdout", text |-> rc.stdout]>>
     ELSE <<>>)
    \o (IF ~IsNone(rc.result)
        THEN <<[output_type |-> "execute_result", execution_count |-> count,
                data |-> StrOf(rc.result)]>>
        ELSE <<>>)
    \o (IF ~IsNone(rc.error)
        THEN <<[output_type |-> "error", ename |-> "ExecutionError",
                traceback |-> SplitNL(rc.error.s)]>>
        ELSE <<>>)

\* a run that stamps the cell with the count after the one it was given
ExecutedCellLate(cell, rc, count) ==
    [cell EXCEPT !.execution_count = PyInt(count + 1),
                 !.outputs = BuildOutputs(rc, count)]

\* a run that adds its records to those the cell has
ExecutedCellAppend(cell, rc, count) ==
    [cell EXCEPT !.execution_count = PyInt(count),
                 !.outputs = @ \o BuildOutputs(rc, count)]

\* the cell after a run that was given the execution count `count` (the two
\* attribute assignments make the attributes where the object has none)
ExecutedCell(cell, rc, count) ==
    IF "execution_count" \in DOMAIN cell
    THEN [cell EXCEPT !.execution_count = PyInt(count),
                      !.outputs = BuildOutputs(rc, count)]
    ELSE [cell_type |-> cell.cell_type, metadata |-> cell.metadata,
          source |-> cell.source, execution_count |-> PyInt(count),
          outputs |-> BuildOutputs(rc, count)]

\* one call run_cell(code, execution_context), as the two tools make it
runCell(code) ==
    LET rc == run_cell(code, execution_context, sys_stdout)
    IN /\ execution_context' = rc.context
       /\ sys_stdout' = rc.sys_stdout
       /\ ret' = [op |-> "run_cell", code |-> code, raised |-> rc.raised,
                  stdout |-> rc.stdout, result |-> rc.result, error |-> rc.error]
       /\ UNCHANGED <<history, global_execution_count, files>>

\* a type test every cell passes
IsCodeCellAlways(cell) == TRUE

\* `cell.cell_type != "code"` of executeCodeCell, negated
IsCodeCell(cell) == cell.cell_type = "code"

executeCodeCell(index) ==
    IF index < 0 \/ index >= Len(history)
    THEN /\ ret' = [op |-> "executeCodeCell", executed |-> FALSE, stdout |-> <<>>,
                    result |-> None,
                    error |-> MsgInvalidIndex("Invalid index", history),
                    execution_count |-> 0 - 1,
                    message |-> MsgInvalidIndex("Invalid index", history)]
         /\ UNCHANGED <<history, execution_context, global_execution_count, files, sys_stdout>>
    ELSE IF ~IsCodeCell(history[index + 1])
    THEN /\ ret' = [op |-> "executeCodeCell", executed |-> FALSE, stdout |-> <<>>,
                    result |-> None,
                    error |-> [text |-> "is not a code cell",
                               cell_type |-> history[index + 1].cell_type],
                    execution_count |-> 0 - 1,
                    message |-> [text |-> "Cannot execute cell",
                                 cell_type |-> history[index + 1].cell_type]]
         /\ UNCHANGED <<history, execution_context, global_execution_count, files, sys_stdout>>
    ELSE LET rc == run_cell(history[index + 1].source, execution_context, sys_stdout)
         IN /\ global_execution_count <= MaxCount
            /\ execution_context' = rc.context
            /\ sys_stdout' = rc.sys_stdout
            /\ UNCHANGED files
            /\ IF rc.raised # ""
               THEN /\ ret' = [op |-> "executeCodeCell", raised |-> rc.raised]
                    /\ UNCHANGED <<history, global_execution_count>>
               ELSE /\ history' = [history EXCEPT ![index + 1] =
                                     ExecutedCell(@, rc, global_execution_count)]
                    /\ global_execution_count' = NextCount(global_execution_count)
                    /\ ret' = [op |-> "executeCodeCell", executed |-> TRUE,
                               stdout |-> rc.stdout, result |-> rc.result,
                               error |-> rc.error,
                               execution_count |-> global_execution_count,
                               message |-> Msg(IF IsNone(rc.error)
                                               THEN "executed successfully"
                                               ELSE "executed with errors")]

getExecutionContext ==
    /\ ret' = IF UserVariablesRaise(execution_context)
              THEN [op |-> "getExecutionContext", success |-> FALSE,
                    variables |-> EmptyDict, variable_count |-> 0,
                    message |-> Msg("Failed to get execution context")]
              ELSE LET user_variables == get_user_variables(execution_context)
                   IN [op |-> "getExecutionContext", success |-> TRUE,
                       variables |-> user_variables,
                       variable_count |-> Cardinality(DOMAIN user_variables),
                       message |-> [text |-> "Retrieved user-defined variables",
                                    count |-> Cardinality(DOMAIN user_variables)]]
    /\ UNCHANGED <<history, execution_context, global_execution_count, files, sys_stdout>>

\* one pass of the loop body of executeAllCells over the code cell at list
\* position i; acc carries the state the loop has built so far
RunOne(i, acc, rc) ==
    IF rc.raised # ""
    THEN [acc EXCEPT !.context = rc.context, !.sys_stdout = rc.sys_stdout,
                     !.raised = rc.raised]
    ELSE [history |-> [acc.history EXCEPT ![i] = ExecutedCell(@, rc, acc.count)],
          context |-> rc.context,
          sys_stdout |-> rc.sys_stdout,
          count |-> NextCount(acc.count),
          results |-> Append(acc.results,
                        [index |-> i - 1, executed |-> TRUE,
                         stdout |-> rc.stdout, result |-> rc.result,
                         error |-> rc.error, execution_count |-> acc.count]),
          raised |-> ""]

\* the loop of executeAllCells from list position i on; an exception that
\* run_cell does not catch ends it
RECURSIVE RunAll(_, _)
RunAll(i, acc) ==
    IF i > Len(acc.history) \/ acc.raised # "" THEN acc
    ELSE IF acc.history[i].cell_type # "code" THEN RunAll(i + 1, acc)
    ELSE CHOOSE r \in
            {RunAll(i + 1, a) :
                a \in {RunOne(i, acc, rc) :
                         rc \in {run_cell(acc.history[i].source, acc.context,
                                           acc.sys_stdout)}}} : TRUE

NumCodeCells(h) == Cardinality({i \in 1..Len(h) : h[i].cell_type = "code"})

executeAllCells ==
    LET acc == RunAll(1, [history |-> history, context |-> execution_context,
                          sys_stdout |-> sys_stdout,
                          count |-> global_execution_count, results |-> <<>>,
                          raised |-> ""])
        success == \A i \in 1..Len(acc.results) : IsNone(acc.results[i].error)
    IN /\ global_execution_count + NumCodeCells(history) <= MaxCount + 1
       /\ history' = acc.history
       /\ execution_context' = acc.context
       /\ global_execution_count' = acc.count
       /\ sys_stdout' = acc.sys_stdout
       /\ UNCHANGED files
       /\ IF acc.raised # ""
          THEN ret' = [op |-> "executeAllCells", raised |-> acc.raised]
          ELSE ret' = [op |-> "executeAllCells", executed |-> success,
                       total_cells |-> Len(history),
                       executed_cells |-> Len(acc.results),
                       results |-> acc.results,
                       message |-> Msg(IF success THEN "Executed"
                                       ELSE "Executed (some cells had errors)")]

(* --------------------------- notebook tools ----------------------------- *)

\* a JSON array (a str and a list are both sequences here, so lists are tagged)
PyList(items) == [t |-> "list", items |-> items]

\* what a path of the notebooks directory holds
NoFile == [kind |-> "absent"]

\* a file open(path, 'w') created or truncated and nothing was written to
EmptyFile == [kind |-> "empty"]

\* a file holding the JSON text of `data`
TextFile(data) == [kind |-> "text", data |-> data]

\* a file whose text is not JSON
GarbageFile == [kind |-> "garbage"]

KernelMetadata ==
    [kernelspec |-> [display_name |-> "Python 3", language |-> "python", name |-> "python3"],
     language_info |-> [name |-> "python", version |-> "3.12.0"]]

\* the cell_data dict saveNotebook builds for one cell
CellData(cell) ==
    IF cell.cell_type = "code"
    THEN [cell_type |-> cell.cell_type, metadata |-> cell.metadata,
          source |-> PyList(IF cell.source # <<>> THEN SplitNL(cell.source) ELSE <<<<>>>>),
          execution_count |-> cell.execution_count, outputs |-> cell.outputs]
    ELSE [cell_type |-> cell.cell_type, metadata |-> cell.metadata,
          source |-> PyList(IF cell.source # <<>> THEN SplitNL(cell.source) ELSE <<<<>>>>)]

\* a notebook_data that also carries the context under the key loadNotebook reads
NotebookDataWithContext(h, ctx, count) ==
    [cells |-> [i \in 1..Len(h) |-> CellData(h[i])],
     metadata |-> KernelMetadata,
     nbformat |-> 4,
     nbformat_minor |-> 4,
     user_variables |-> get_user_variables(ctx),
     execution_context |-> ctx,
     global_execution_count |-> count]

\* the notebook_data dict saveNotebook builds
NotebookData(h, ctx, count) ==
    [cells |-> [i \in 1..Len(h) |-> CellData(h[i])],
     metadata |-> KernelMetadata,
     nbformat |-> 4,
     nbformat_minor |-> 4,
     user_variables |-> get_user_variables(ctx),
     global_execution_count |-> count]

\* json.dumps(notebook_data) raises no TypeError: every value is a JSON type
JsonSerializable(data) ==
    \A i \in 1..Len(data.cells) :
        "execution_count" \in DOMAIN data.cells[i]
            => data.cells[i].execution_count.t \in {"none", "int"}

HasSurrogate(text) == \E i \in 1..Len(text) : text[i] = SURROGATE

OutputHasSurrogate(o) ==
    IF o.output_type = "stream" THEN HasSurrogate(o.text)
    ELSE IF o.output_type = "execute_result" THEN HasSurrogate(o.data)
    ELSE \E i \in 1..Len(o.traceback) : HasSurrogate(o.traceback[i])

\* f.write(json_string) on a utf-8 text file raises no UnicodeEncodeError
Utf8Encodable(data) ==
    /\ \A k \in DOMAIN data.user_variables : ~HasSurrogate(data.user_variables[k])
    /\ \A i \in 1..Len(data.cells) :
          /\ \A j \in 1..Len(data.cells[i].source.items) :
                ~HasSurrogate(data.cells[i].source.items[j])
          /\ "outputs" \in DOMAIN data.cells[i]
                => \A j \in 1..Len(data.cells[i].outputs) :
                       ~OutputHasSurrogate(data.cells[i].outputs[j])

\* the file at `filename` after open(filepath, 'w') and f.write(json_string)
WriteFile(fs, filename, data) ==
    [fs EXCEPT ![filename] = IF Utf8Encodable(data) THEN TextFile(data) ELSE EmptyFile]

\* the body of saveNotebook: the dict it returns and the directory it leaves
SaveCall(filename) ==
    LET data == NotebookData(history, execution_context, global_execution_count)
    IN IF UserVariablesRaise(execution_context)
       THEN [saved |-> FALSE, filepath |-> "",
             message |-> Msg("Failed to save notebook"), files |-> files]
       ELSE IF ~JsonSerializable(data)
       THEN [saved |-> FALSE, filepath |-> "",
             message |-> Msg("Failed to serialize notebook data to JSON"),
             files |-> files]
       ELSE IF Utf8Encodable(data)
       THEN [saved |-> TRUE, filepath |-> filename,
             message |-> Msg("Notebook saved successfully"),
             files |-> WriteFile(files, filename, data)]
       ELSE [saved |-> FALSE, filepath |-> "",
             message |-> Msg("Failed to save notebook"),
             files |-> WriteFile(files, filename, data)]

saveNotebook(filename) ==
    LET r == SaveCall(filename)
    IN /\ UNCHANGED <<history, execution_context, global_execution_count, sys_stdout>>
       /\ files' = r.files
       /\ ret' = [op |-> "saveNotebook", saved |-> r.saved, filepath |-> r.filepath,
                  message |-> r.message]

(* ------------------------------- export --------------------------------- *)

\* datetime.now().isoformat()
Now == "<now>"

\* bool(v) of an execution count
Truthy(v) == IF v.t = "int" THEN v.n # 0 ELSE IF v.t = "str" THEN v.s # <<>> ELSE FALSE

\* the "# "-prefixed lines the py export writes for a markdown source
RECURSIVE CommentLines(_)
CommentLines(lines) ==
    IF lines = <<>> THEN <<>>
    ELSE <<"# ">> \o Head(lines) \o <<"\n">> \o CommentLines(Tail(lines))

\* what the py export writes for cell i (0-based)
PyCell(cell, i) ==
    IF cell.cell_type = "markdown"
    THEN <<"# Cell ", ToString(i), " - Markdown", "\n">>
         \o CommentLines(SplitNL(cell.source)) \o <<"\n">>
    ELSE IF cell.cell_type = "code"
    THEN <<"# Cell ", ToString(i), " - Code", "\n">>
         \o (IF Truthy(cell.execution_count)
             THEN <<"# Execution count: ">> \o StrOf(cell.execution_count) \o <<"\n">>
             ELSE <<>>)
         \o cell.source \o <<"\n", "\n">>
    ELSE <<>>

\* the fence lines ``` and ```python of the md export, with ' for the backquote
Fence == "'''"

FencePython == "'''python"

\* what the md export writes for one output record
MdOutput(o) ==
    IF o.output_type = "stream" THEN <<Fence, "\n">> \o o.text \o <<"\n", Fence, "\n", "\n">>
    ELSE IF o.output_type = "execute_result"
    THEN <<Fence, "\n">> \o o.data \o <<"\n", Fence, "\n", "\n">>
    ELSE <<>>

RECURSIVE MdOutputs(_)
MdOutputs(outputs) ==
    IF outputs = <<>> THEN <<>> ELSE MdOutput(Head(outputs)) \o MdOutputs(Tail(outputs))

\* what the md export writes for one cell
MdCell(cell) ==
    IF cell.cell_type = "markdown" THEN cell.source \o <<"\n", "\n">>
    ELSE IF cell.cell_type = "code"
    THEN <<FencePython, "\n">> \o cell.source \o <<"\n", Fence, "\n", "\n">>
         \o MdOutputs(cell.outputs)
    ELSE <<>>

\* the text of the exported file, cells from position i on
RECURSIVE ExportCells(_, _, _)
ExportCells(format, h, i) ==
    IF i > Len(h) THEN <<>>
    ELSE (IF format = "py" THEN PyCell(h[i], i - 1) ELSE MdCell(h[i]))
         \o ExportCells(format, h, i + 1)

ExportText(format, h) ==
    (IF format = "py"
     THEN <<"# Jupyter Notebook exported to Python", "\n", "# Generated on ", Now,
            "\n", "\n">>
     ELSE <<"# Jupyter Notebook", "\n", "\n", "*Exported on ", Now, "*", "\n", "\n">>)
    \o ExportCells(format, h, 1)

\* a file of written text, and one whose writing stopped at a character the
\* utf-8 encoder refuses
ScriptFile(text) == [kind |-> "script", text |-> text]

PartialFile == [kind |-> "partial"]

\* filename with the extension of the format
ExportPath(filename, format) ==
    IF format = "py" THEN [nb |-> "nb.py"][filename] ELSE [nb |-> "nb.md"][filename]

\* exportNotebook(filename, format); for json it calls the name saveNotebook,
\* which is what mcp.tool() returned for it: the function itself or a tool
\* object that cannot be called (callable says which)
exportNotebook(filename, format, callable) ==
    /\ UNCHANGED <<history, execution_context, global_execution_count, sys_stdout>>
    /\ IF format = "json"
       THEN IF callable
            THEN LET r == SaveCall(filename)
                 IN /\ files' = r.files
                    /\ ret' = [op |-> "exportNotebook", saved |-> r.saved,
                               filepath |-> r.filepath, message |-> r.message]
            ELSE /\ ret' = [op |-> "exportNotebook", exported |-> FALSE, filepath |-> "",
                            message |-> Msg("Failed to export notebook")]
                 /\ UNCHANGED files
       ELSE IF format \in {"py", "md"}
       THEN LET text == ExportText(format, history)
            IN IF HasSurrogate(text)
               THEN /\ files' = [files EXCEPT ![ExportPath(filename, format)] = PartialFile]
                    /\ ret' = [op |-> "exportNotebook", exported |-> FALSE,
                               filepath |-> "",
                               message |-> Msg("Failed to export notebook")]
               ELSE /\ files' = [files EXCEPT ![ExportPath(filename, format)] =
                                    ScriptFile(text)]
                    /\ ret' = [op |-> "exportNotebook", exported |-> TRUE,
                               filepath |-> ExportPath(filename, format),
                               message |-> [text |-> "Notebook exported successfully",
                                            format |-> format]]
       ELSE /\ ret' = [op |-> "exportNotebook", exported |-> FALSE, filepath |-> "",
                       message |-> [text |-> "Unsupported format", format |-> format]]
            /\ UNCHANGED files

\* dict.get(key, default)
Get(d, key, default) == IF key \in DOMAIN d THEN d[key] ELSE default

\* cell_data is a JSON object (anything else has no .get)
IsDict(v) == "t" \notin DOMAIN v

\* a loader that puts the lines of a source together without newlines
LoadedSourceFlat(source) ==
    IF source.t = "str" THEN source.s
    ELSE IF source.items = <<>> THEN <<>>
    ELSE LET RECURSIVE Flat(_)
             Flat(l) == IF l = <<>> THEN <<>> ELSE Head(l) \o Flat(Tail(l))
         IN Flat(source.items)

\* the source of a loaded cell: a list of lines is joined, a str is taken as it is
LoadedSource(source) == IF source.t = "list" THEN JoinNL(source.items) ELSE source.s

\* a dispatch whose last branch takes every remaining type for code
IsCodeTypeOrOther(cell_type) == TRUE

\* `elif cell_type == "code"`; what passes neither test is skipped
IsCodeType(cell_type) == cell_type = "code"

\* the loop over notebook_data["cells"] from entry i on: it appends the known
\* cells, skips unknown types and stops at the first entry that raises
RECURSIVE LoadCells(_, _, _)
LoadCells(cells, i, acc) ==
    IF i > Len(cells) THEN acc
    ELSE IF ~IsDict(cells[i]) THEN [acc EXCEPT !.failed = TRUE]
    ELSE LET cell_type == Get(cells[i], "cell_type", "")
             source == LoadedSource(Get(cells[i], "source", PyList(<<>>)))
         IN IF cell_type = "markdown"
            THEN LoadCells(cells, i + 1,
                   [acc EXCEPT !.history = Append(@,
                       [MarkdownCell(source) EXCEPT
                           !.metadata = Get(cells[i], "metadata", EmptyDict)])])
            ELSE IF IsCodeType(cell_type)
            THEN LoadCells(cells, i + 1,
                   [acc EXCEPT !.history = Append(@,
                       [CodeCell(source, Get(cells[i], "execution_count", None)) EXCEPT
                           !.metadata = Get(cells[i], "metadata", EmptyDict),
                           !.outputs = Get(cells[i], "outputs", <<>>)])])
            ELSE LoadCells(cells, i + 1, acc)

loadNotebook(filepath) ==
    IF files[filepath].kind = "absent"
    THEN /\ ret' = [op |-> "loadNotebook", loaded |-> FALSE, cells_loaded |-> 0,
                    message |-> [text |-> "File not found", filepath |-> filepath]]
         /\ UNCHANGED <<history, execution_context, global_execution_count, files, sys_stdout>>
    ELSE IF files[filepath].kind # "text"
    THEN /\ ret' = [op |-> "loadNotebook", loaded |-> FALSE, cells_loaded |-> 0,
                    message |-> Msg("Failed to load notebook")]
         /\ UNCHANGED <<history, execution_context, global_execution_count, files, sys_stdout>>
    ELSE LET notebook_data == files[filepath].data
             acc == LoadCells(Get(notebook_data, "cells", <<>>), 1,
                              [history |-> <<>>, failed |-> FALSE])
         IN /\ history' = acc.history
            /\ execution_context' =
                  Get(notebook_data, "execution_context", execution_context)
            /\ global_execution_count' =
                  Get(notebook_data, "global_execution_count", global_execution_count)
            /\ UNCHANGED <<files, sys_stdout>>
            /\ ret' = IF acc.failed
                      THEN [op |-> "loadNotebook", loaded |-> FALSE, cells_loaded |-> 0,
                            message |-> Msg("Failed to load notebook")]
                      ELSE [op |-> "loadNotebook", loaded |-> TRUE,
                            cells_loaded |-> Len(acc.history),
                            message |-> [text |-> "Notebook loaded successfully",
                                         filepath |-> filepath]]

(* -------------------- the tools of mcpContainer/main.py ------------------ *)

\* the notebook_data dict of main.py's saveNotebook: the execution context
\* itself is a value of it
MainNotebookData(h, ctx, count) ==
    [cells |-> [i \in 1..Len(h) |-> CellData(h[i])],
     metadata |-> KernelMetadata,
     nbformat |-> 4,
     nbformat_minor |-> 4,
     execution_context |-> ctx,
     global_execution_count |-> count]

\* json.dump(notebook_data, f) meets only JSON types and text the utf-8
\* encoder of the file takes
MainDumpable(data) ==
    /\ \A k \in DOMAIN data.execution_context :
          /\ data.execution_context[k].t \in {"none", "int", "str"}
          /\ data.execution_context[k].t = "str"
                => ~HasSurrogate(data.execution_context[k].s)
    /\ \A i \in 1..Len(data.cells) :
          /\ "execution_count" \in DOMAIN data.cells[i]
                => data.cells[i].execution_count.t \in {"none", "int"}
          /\ \A j \in 1..Len(data.cells[i].source.items) :
                ~HasSurrogate(data.cells[i].source.items[j])
          /\ "outputs" \in DOMAIN data.cells[i]
                => \A j \in 1..Len(data.cells[i].outputs) :
                       ~OutputHasSurrogate(data.cells[i].outputs[j])

\* saveNotebook of main.py: open(filepath, 'w'), then json.dump into the file;
\* a dump that raises leaves the text written so far
main_saveNotebook(filename) ==
    LET data == MainNotebookData(history, execution_context, global_execution_count)
    IN /\ UNCHANGED <<history, execution_context, global_execution_count, sys_stdout>>
       /\ IF MainDumpable(data)
          THEN /\ files' = [files EXCEPT ![filename] = TextFile(data)]
               /\ ret' = [op |-> "main.saveNotebook", saved |-> TRUE,
                          filepath |-> filename,
                          message |-> Msg("Notebook saved successfully")]
          ELSE /\ files' = [files EXCEPT ![filename] = PartialFile]
               /\ ret' = [op |-> "main.saveNotebook", saved |-> FALSE, filepath |-> "",
                          message |-> Msg("Failed to save notebook")]

(* ------------ the cell and execution tools of mcpContainer/main.py ------------ *)

\* the tools of main.py work on the module globals history, execution_context and
\* global_execution_count, which the three variables of the same names stand for
\* here; each definition follows the function of that name in main.py

main_createMarkdownCell(content) ==
    /\ IF IsEmptyContent(content)
       THEN /\ ret' = [op |-> "createMarkdownCell", created |-> FALSE, index |-> 0 - 1,
                       message |-> Msg("Content cannot be empty")]
            /\ UNCHANGED history
       ELSE /\ Len(history) < MaxCells
            /\ history' = Append(history, MarkdownCell(Strip(content)))
            /\ ret' = [op |-> "createMarkdownCell", created |-> TRUE,
                       index |-> Len(history') - 1,
                       message |-> Msg("Markdown cell created successfully")]
    /\ UNCHANGED <<execution_context, global_execution_count, files, sys_stdout>>

main_createCodeCell(content) ==
    /\ IF IsEmptyContent(content)
       THEN /\ ret' = [op |-> "createCodeCell", created |-> FALSE, index |-> 0 - 1,
                       message |-> Msg("Content cannot be empty")]
            /\ UNCHANGED history
       ELSE /\ Len(history) < MaxCells
            /\ history' = Append(history, CodeCell(Strip(content), None))
            /\ ret' = [op |-> "createCodeCell", created |-> TRUE,
                       index |-> Len(history') - 1,
                       message |-> Msg("Code cell created successfully")]
    /\ UNCHANGED <<execution_context, global_execution_count, files, sys_stdout>>

main_getCellContent(index) ==
    /\ ret' = IF index < 0 \/ index >= Len(history)
              THEN [op |-> "getCellContent", found |-> FALSE,
                    content |-> MsgInvalidIndex("Invalid index", history),
                    cell_type |-> "", execution_count |-> None, outputs |-> <<>>]
              ELSE [op |-> "getCellContent", found |-> TRUE,
                    content |-> PyText(history[index + 1].source),
                    cell_type |-> history[index + 1].cell_type,
                    execution_count |->
                        IF history[index + 1].cell_type = "code"
                        THEN history[index + 1].execution_count ELSE None,
                    outputs |->
                        IF history[index + 1].cell_type = "code"
                        THEN history[index + 1].outputs ELSE <<>>]
    /\ UNCHANGED <<history, execution_context, global_execution_count, files, sys_stdout>>

main_insertMarkdownCell(content, index) ==
    /\ IF IsEmptyContent(content)
       THEN /\ ret' = [op |-> "insertMarkdownCell", created |-> FALSE, index |-> 0 - 1,
                       message |-> Msg("Content cannot be empty")]
            /\ UNCHANGED history
       ELSE IF index < 0 \/ index > Len(history)
       THEN /\ ret' = [op |-> "insertMarkdownCell", created |-> FALSE, index |-> 0 - 1,
                       message |-> MsgInvalidInsert(history)]
            /\ UNCHANGED history
       ELSE /\ Len(history) < MaxCells
            /\ history' = ListInsert(history, index,
                                     MarkdownCell(Strip(content)))
            /\ ret' = [op |-> "insertMarkdownCell", created |-> TRUE, index |-> index,
                       message |-> Msg("Markdown cell inserted successfully")]
    /\ UNCHANGED <<execution_context, global_execution_count, files, sys_stdout>>

main_insertCodeCell(content, index) ==
    /\ IF IsEmptyContent(content)
       THEN /\ ret' = [op |-> "insertCodeCell", created |-> FALSE, index |-> 0 - 1,
                       message |-> Msg("Content cannot be empty")]
            /\ UNCHANGED history
       ELSE IF index < 0 \/ index > Len(history)
       THEN /\ ret' = [op |-> "insertCodeCell", created |-> FALSE, index |-> 0 - 1,
                       message |-> MsgInvalidInsert(history)]
            /\ UNCHANGED history
       ELSE /\ Len(history) < MaxCells
            /\ history' = ListInsert(history, index,
                                     CodeCell(Strip(content), None))
            /\ ret' = [op |-> "insertCodeCell", created |-> TRUE, index |-> index,
                       message |-> Msg("Code cell inserted successfully")]
    /\ UNCHANGED <<execution_context, global_execution_count, files, sys_stdout>>

main_updateCell(index, content) ==
    /\ IF index < 0 \/ index >= Len(history)
       THEN /\ ret' = [op |-> "updateCell", updated |-> FALSE,
                       message |-> MsgInvalidIndex("Invalid index", history),
                       cell_type |-> ""]
            /\ UNCHANGED history
       ELSE IF IsEmptyContent(content)
       THEN /\ ret' = [op |-> "updateCell", updated |-> FALSE,
                       message |-> Msg("Content cannot be empty"), cell_type |-> ""]
            /\ UNCHANGED history
       ELSE /\ history' = [history EXCEPT ![index + 1].source = Strip(content)]
            /\ ret' = [op |-> "updateCell", updated |-> TRUE,
                       message |-> Msg("Cell updated successfully"),
                       cell_type |-> history[index + 1].cell_type]
    /\ UNCHANGED <<execution_context, global_execution_count, files, sys_stdout>>

main_deleteCell(index) ==
    /\ IF index < 0 \/ index >= Len(history)
       THEN /\ ret' = [op |-> "deleteCell", deleted |-> FALSE,
                       message |-> MsgInvalidIndex("Invalid index", history),
                       new_total |-> Len(history), deleted_cell_type |-> ""]
            /\ UNCHANGED history
       ELSE /\ history' = ListPop(history, index)
            /\ ret' = [op |-> "deleteCell", deleted |-> TRUE,
                       message |-> Msg("cell deleted successfully"),
                       new_total |-> Len(history'),
                       deleted_cell_type |-> history[index + 1].cell_type]
    /\ UNCHANGED <<execution_context, global_execution_count, files, sys_stdout>>

main_moveCell(from_index, to_index) ==
    /\ IF from_index < 0 \/ from_index >= Len(history)
       THEN /\ ret' = [op |-> "moveCell", moved |-> FALSE,
                       message |-> MsgInvalidIndex("Invalid from_index", history),
                       cell_type |-> ""]
            /\ UNCHANGED history
       ELSE IF to_index < 0 \/ to_index >= Len(history)
       THEN /\ ret' = [op |-> "moveCell", moved |-> FALSE,
                       message |-> MsgInvalidIndex("Invalid to_index", history),
                       cell_type |-> ""]
            /\ UNCHANGED history
       ELSE IF from_index = to_index
       THEN /\ ret' = [op |-> "moveCell", moved |-> TRUE,
                       message |-> Msg("Cell is already at the target position"),
                       cell_type |-> history[from_index + 1].cell_type]
            /\ UNCHANGED history
       ELSE /\ history' = ListInsert(ListPop(history, from_index), to_index,
                                     history[from_index + 1])
            /\ ret' = [op |-> "moveCell", moved |-> TRUE,
                       message |-> Msg("cell moved"),
                       cell_type |-> history[from_index + 1].cell_type]
    /\ UNCHANGED <<execution_context, global_execution_count, files, sys_stdout>>

main_getHistoryInfo ==
    /\ ret' = [op |-> "getHistoryInfo",
               total_cells |-> Len(history),
               cell_types |-> [i \in 1..Len(history) |-> history[i].cell_type],
               code_cells |->
                   Cardinality({i \in 1..Len(history) : history[i].cell_type = "code"}),
               markdown_cells |->
                   Cardinality({i \in 1..Len(history) : history[i].cell_type = "markdown"}),
               executed_cells |->
                   Cardinality({i \in 1..Len(history) :
                                   /\ history[i].cell_type = "code"
                                   /\ ~IsNone(history[i].execution_count)}),
               global_execution_count |-> global_execution_count]
    /\ UNCHANGED <<history, execution_context, global_execution_count, files, sys_stdout>>

\* the cell after `cell.execution_count = global_execution_count` and
\* `cell.outputs = outputs`
MainExecutedCell(cell, rc, count) ==
    IF "execution_count" \in DOMAIN cell
    THEN [cell EXCEPT !.execution_count = PyInt(count),
                      !.outputs = BuildOutputs(rc, count)]
    ELSE [cell_type |-> cell.cell_type, metadata |-> cell.metadata,
          source |-> cell.source, execution_count |-> PyInt(count),
          outputs |-> BuildOutputs(rc, count)]

main_executeCodeCell(index) ==
    IF index < 0 \/ index >= Len(history)
    THEN /\ ret' = [op |-> "executeCodeCell", executed |-> FALSE, stdout |-> <<>>,
                    result |-> None,
                    error |-> MsgInvalidIndex("Invalid index", history),
                    execution_count |-> 0 - 1,
                    message |-> MsgInvalidIndex("Invalid index", history)]
         /\ UNCHANGED <<history, execution_context, global_execution_count, files, sys_stdout>>
    ELSE IF history[index + 1].cell_type # "code"
    THEN /\ ret' = [op |-> "executeCodeCell", executed |-> FALSE, stdout |-> <<>>,
                    result |-> None,
                    error |-> [text |-> "is not a code cell",
                               cell_type |-> history[index + 1].cell_type],
                    execution_count |-> 0 - 1,
                    message |-> [text |-> "Cannot execute cell",
                                 cell_type |-> history[index + 1].cell_type]]
         /\ UNCHANGED <<history, execution_context, global_execution_count, files, sys_stdout>>
    ELSE LET rc == run_cell(history[index + 1].source, execution_context, sys_stdout)
         IN /\ global_execution_count <= MaxCount
            /\ execution_context' = rc.context
            /\ sys_stdout' = rc.sys_stdout
            /\ UNCHANGED files
            /\ IF rc.raised # ""
               THEN /\ ret' = [op |-> "executeCodeCell", raised |-> rc.raised]
                    /\ UNCHANGED <<history, global_execution_count>>
               ELSE /\ history' = [history EXCEPT ![index + 1] =
                                     MainExecutedCell(@, rc, global_execution_count)]
                    /\ global_execution_count' = global_execution_count + 1
                    /\ ret' = [op |-> "executeCodeCell", executed |-> TRUE,
                               stdout |-> rc.stdout, result |-> rc.result,
                               error |-> rc.error,
                               execution_count |-> global_execution_count,
                               message |-> Msg(IF IsNone(rc.error)
                                               THEN "executed successfully"
                                               ELSE "executed with errors")]

\* one pass of the loop body of main.py's executeAllCells over the code cell at
\* list position i
MainRunOne(i, acc, rc) ==
    IF rc.raised # ""
    THEN [acc EXCEPT !.context = rc.context, !.sys_stdout = rc.sys_stdout,
                     !.raised = rc.raised]
    ELSE [history |-> [acc.history EXCEPT ![i] = MainExecutedCell(@, rc, acc.count)],
          context |-> rc.context,
          sys_stdout |-> rc.sys_stdout,
          count |-> acc.count + 1,
          results |-> Append(acc.results,
                        [index |-> i - 1, executed |-> TRUE,
                         stdout |-> rc.stdout, result |-> rc.result,
                         error |-> rc.error, execution_count |-> acc.count]),
          raised |-> ""]

\* the loop of main.py's executeAllCells from list position i on
RECURSIVE MainRunAll(_, _)
MainRunAll(i, acc) ==
    IF i > Len(acc.history) \/ acc.raised # "" THEN acc
    ELSE IF acc.history[i].cell_type # "code" THEN MainRunAll(i + 1, acc)
    ELSE CHOOSE r \in
            {MainRunAll(i + 1, a) :
                a \in {MainRunOne(i, acc, rc) :
                         rc \in {run_cell(acc.history[i].source, acc.context,
                                           acc.sys_stdout)}}} : TRUE

main_executeAllCells ==
    LET acc == MainRunAll(1, [history |-> history, context |-> execution_context,
                              sys_stdout |-> sys_stdout,
                              count |-> global_execution_count, results |-> <<>>,
                              raised |-> ""])
        success == \A i \in 1..Len(acc.results) : IsNone(acc.results[i].error)
    IN /\ global_execution_count + NumCodeCells(history) <= MaxCount + 1
       /\ history' = acc.history
       /\ execution_context' = acc.context
       /\ global_execution_count' = acc.count
       /\ sys_stdout' = acc.sys_stdout
       /\ UNCHANGED files
       /\ IF acc.raised # ""
          THEN ret' = [op |-> "executeAllCells", raised |-> acc.raised]
          ELSE ret' = [op |-> "executeAllCells", executed |-> success,
                       total_cells |-> Len(history),
                       executed_cells |-> Len(acc.results),
                       results |-> acc.results,
                       message |-> Msg(IF success THEN "Executed"
                                       ELSE "Executed (some cells had errors)")]

\* a loop that clears the execution counts and leaves the outputs
MainResetCellsKeepOutputs(h) ==
    [i \in 1..Len(h) |->
        IF h[i].cell_type = "code" THEN [h[i] EXCEPT !.execution_count = None] ELSE h[i]]

\* the loop of main.py's restartKernel over history
MainResetCells(h) ==
    [i \in 1..Len(h) |->
        IF h[i].cell_type = "code"
        THEN [h[i] EXCEPT !.outputs = <<>>, !.execution_count = None]
        ELSE h[i]]

main_restartKernel ==
    /\ execution_context' = EmptyCtx
    /\ global_execution_count' = 1
    /\ history' = MainResetCells(history)
    /\ ret' = [op |-> "restartKernel", restarted |-> TRUE,
               message |-> Msg("Kernel restarted successfully")]
    /\ UNCHANGED <<files, sys_stdout>>

main_getExecutionContext ==
    /\ ret' = IF \E k \in DOMAIN execution_context :
                    k # "__builtins__" /\ StrRaises(execution_context[k])
              THEN [op |-> "getExecutionContext", success |-> FALSE,
                    variables |-> EmptyDict, variable_count |-> 0,
                    message |-> Msg("Failed to get execution context")]
              ELSE LET user_variables ==
                           [k \in DOMAIN execution_context \ {"__builtins__"} |->
                               StrOf(execution_context[k])]
                   IN [op |-> "getExecutionContext", success |-> TRUE,
                       variables |-> user_variables,
                       variable_count |-> Cardinality(DOMAIN user_variables),
                       message |-> [text |-> "Retrieved user-defined variables",
                                    count |-> Cardinality(DOMAIN user_variables)]]
    /\ UNCHANGED <<history, execution_context, global_execution_count, files, sys_stdout>>

main_clearHistory ==
    /\ history' = <<>>
    /\ execution_context' = EmptyCtx
    /\ global_execution_count' = 1
    /\ ret' = [op |-> "clearHistory", cleared |-> TRUE,
               message |-> Msg("History cleared successfully"),
               previous_total |-> Len(history)]
    /\ UNCHANGED <<files, sys_stdout>>

(* ----------------- the agent graph of src/agentContainer ----------------- *)

MAX_ATTEMPTS == 5

\* initial_state of run_agent, and the entry point of the graph
InitialAgent ==
    [node |-> "entry", task |-> "task", outputs |-> <<>>, attempts |-> 0,
     keep_refining |-> TRUE, available_tools |-> <<>>, notebook_data |-> None,
     runs |-> 0]

\* what a node can meet: a call that returns or one that raises
Outcomes == {"ok", "raise"}

\* what the model says when refining asks it, or the call raising
Answers == {"yes", "no", "raise"}

\* what list_notebooks does in finished, or a statement of finished raising
FinishOutcomes == {"ok", "mcp_error", "raise"}

\* entry: the tools are read (an error there leaves none), then the model
\* refines the task; an exception is recorded in outputs; the edge leads to
\* codeAttempt either way
entry(tools, outcome) ==
    /\ agent.node = "entry"
    /\ agent' = [agent EXCEPT
                    !.available_tools = IF tools THEN <<"tools">> ELSE <<>>,
                    !.task = IF outcome = "ok" THEN "refined" ELSE @,
                    !.outputs = IF outcome = "ok" THEN @
                                ELSE Append(@, "Entry phase error"),
                    !.node = "codeAttempt"]

\* code_attempt: the answer of the model, or the error, is appended to outputs
\* and attempts grows by one in the try block as in the except clause
code_attempt(outcome) ==
    /\ agent.node = "codeAttempt"
    /\ agent' = [agent EXCEPT
                    !.outputs = Append(@, IF outcome = "ok" THEN "response"
                                          ELSE "Code attempt error"),
                    !.attempts = @ + 1,
                    !.runs = @ + 1,
                    !.node = "refining"]

\* a test that lets one more attempt through
ReachedMaxLate(attempts) == attempts > MAX_ATTEMPTS

\* `state["attempts"] >= MAX_ATTEMPTS`
ReachedMax(attempts) == attempts >= MAX_ATTEMPTS

\* the routing function of the conditional edge after refining
Route(state) == IF state.keep_refining THEN "codeAttempt" ELSE "finished"

\* refining: at MAX_ATTEMPTS it stops without asking; else "yes" in the answer
\* of the model decides, and an exception stops and is recorded
refining(answer) ==
    /\ agent.node = "refining"
    /\ LET state ==
               IF ReachedMax(agent.attempts)
               THEN [agent EXCEPT !.keep_refining = FALSE]
               ELSE IF answer = "raise"
               THEN [agent EXCEPT !.keep_refining = FALSE,
                                  !.outputs = Append(@, "Refining phase error")]
               ELSE [agent EXCEPT !.keep_refining = (answer = "yes")]
       IN agent' = [state EXCEPT !.node = Route(state)]

\* finished: the notebooks are listed into notebook_data (an error of the
\* service or of the node is recorded in outputs); the edge leads to END
finished(outcome) ==
    /\ agent.node = "finished"
    /\ agent' = [agent EXCEPT
                    !.notebook_data =
                        IF outcome = "ok" THEN PyText(<<"notebooks">>)
                        ELSE IF outcome = "mcp_error" THEN PyText(<<"error">>)
                        ELSE @,
                    !.outputs =
                        IF outcome = "ok" THEN @
                        ELSE IF outcome = "mcp_error"
                        THEN Append(@, "Error getting notebook data")
                        ELSE Append(@, "Finished phase error"),
                    !.node = "END"]

(* ------------------------- files found on disk -------------------------- *)

\* a notebook whose second cell entry is no JSON object
TornDoc ==
    [cells |-> <<[cell_type |-> "markdown", metadata |-> EmptyDict,
                  source |-> PyList(<<TextMd>>)],
                 PyInt(5)>>,
     global_execution_count |-> 2]

\* a notebook of another tool: no global_execution_count, a cell of another
\* type, a source stored as one str, and an execution_context
ForeignDoc ==
    [cells |-> <<[cell_type |-> "raw", metadata |-> EmptyDict,
                  source |-> PyList(<<TextMd>>)],
                 [cell_type |-> "code", metadata |-> EmptyDict,
                  source |-> PyText(ProgX), execution_count |-> PyInt(3),
                  outputs |-> <<>>]>>,
     execution_context |-> [k \in {"x"} |-> PyInt(2)],
     nbformat |-> 4]

SaveNames == {"nb"}

FileNames == {"nb", "garbage", "torn", "foreign"}

\* a notebook of three different cells, as saveNotebook writes it
LongDoc ==
    NotebookData(<<MarkdownCell(TextMd), CodeCell(ProgX, None),
                   CodeCell(ProgAssignAdd, None)>>, EmptyCtx, 1)

LongNames == {"long"}

\* the files of the py and the md export
ExportNames == {"nb.py", "nb.md"}

\* the values of the argument format
Formats == {"json", "py", "md", "html"}

\* every file of the notebooks directory
DiskNames == FileNames \cup LongNames \cup ExportNames

(* ----------------------------- specification ---------------------------- *)

Init ==
    /\ history = <<>>
    /\ execution_context = EmptyCtx
    /\ global_execution_count = 1
    /\ files = [f \in DiskNames |->
                  IF f = "garbage" THEN GarbageFile
                  ELSE IF f = "long" THEN TextFile(LongDoc)
                  ELSE IF f = "torn" THEN TextFile(TornDoc)
                  ELSE IF f = "foreign" THEN TextFile(ForeignDoc)
                  ELSE NoFile]
    /\ sys_stdout = Terminal
    /\ callers = [c \in Callers |-> Idle]
    /\ agent = InitialAgent
    /\ ret = [op |-> "init"]
    /\ steps = 0
    /\ snapshot = [saved |-> FALSE]

\* one more operation of a bounded run
Tick(bound) == steps < bound /\ steps' = steps + 1

\* the notebook as the last successful saveNotebook wrote it
Snap ==
    snapshot' = IF ret'.op = "saveNotebook" /\ ret'.saved
                THEN [saved |-> TRUE, history |-> history,
                      count |-> global_execution_count]
                ELSE snapshot

\* every public operation, in runs of at most MaxOps operations
Next ==
    \/ \E c \in MdContents \cup BlankContents : Tick(MaxOps) /\ createMarkdownCell(c) /\ Snap /\ UNCHANGED <<callers, agent>>
    \/ \E c \in {ProgAssignAdd} \cup BlankContents : Tick(MaxOps) /\ createCodeCell(c) /\ Snap /\ UNCHANGED <<callers, agent>>
    \/ \E c \in MdContents \cup BlankContents, i \in Indices :
          Tick(MaxOps) /\ insertMarkdownCell(c, i) /\ Snap /\ UNCHANGED <<callers, agent>>
    \/ \E c \in {ProgAssignAdd} \cup BlankContents, i \in Indices :
          Tick(MaxOps) /\ insertCodeCell(c, i) /\ Snap /\ UNCHANGED <<callers, agent>>
    \/ \E c \in UpdateContents \cup BlankContents, i \in Indices :
          Tick(MaxOps) /\ updateCell(i, c) /\ Snap /\ UNCHANGED <<callers, agent>>
    \/ \E i \in Indices : Tick(MaxOps) /\ deleteCell(i) /\ Snap /\ UNCHANGED <<callers, agent>>
    \/ \E i \in Indices, j \in Indices : Tick(MaxOps) /\ moveCell(i, j) /\ Snap /\ UNCHANGED <<callers, agent>>
    \/ Tick(MaxOps) /\ clearHistory /\ Snap /\ UNCHANGED <<callers, agent>>
    \/ \E i \in Indices : Tick(MaxOps) /\ executeCodeCell(i) /\ Snap /\ UNCHANGED <<callers, agent>>
    \/ Tick(MaxOps) /\ executeAllCells /\ Snap /\ UNCHANGED <<callers, agent>>
    \/ Tick(MaxOps) /\ restartKernel /\ Snap /\ UNCHANGED <<callers, agent>>
    \/ \E f \in SaveNames : Tick(MaxOps) /\ saveNotebook(f) /\ Snap /\ UNCHANGED <<callers, agent>>
    \/ \E f \in FileNames : Tick(MaxOps) /\ loadNotebook(f) /\ Snap /\ UNCHANGED <<callers, agent>>

Spec == Init /\ [][Next]_vars

\* the cell tools alone, in runs of any length
NextCells ==
    \/ \E c \in MdContents \cup BlankContents : createMarkdownCell(c) /\ UNCHANGED <<steps, snapshot, callers, agent>>
    \/ \E c \in CodeContents \cup BlankContents : createCodeCell(c) /\ UNCHANGED <<steps, snapshot, callers, agent>>
    \/ \E c \in MdContents \cup BlankContents, i \in Indices :
          insertMarkdownCell(c, i) /\ UNCHANGED <<steps, snapshot, callers, agent>>
    \/ \E c \in CodeContents \cup BlankContents, i \in Indices :
          insertCodeCell(c, i) /\ UNCHANGED <<steps, snapshot, callers, agent>>
    \/ \E c \in UpdateContents \cup BlankContents, i \in Indices :
          updateCell(i, c) /\ UNCHANGED <<steps, snapshot, callers, agent>>
    \/ \E i \in Indices : deleteCell(i) /\ UNCHANGED <<steps, snapshot, callers, agent>>
    \/ \E i \in Indices, j \in Indices : moveCell(i, j) /\ UNCHANGED <<steps, snapshot, callers, agent>>
    \/ clearHistory /\ UNCHANGED <<steps, snapshot, callers, agent>>

SpecCells == Init /\ [][NextCells]_vars

\* moving and deleting the cells of a loaded notebook of three cells, in runs
\* of any length
NextMove ==
    \/ \E f \in LongNames : loadNotebook(f) /\ UNCHANGED <<steps, snapshot, callers, agent>>
    \/ \E c \in MdContents : createMarkdownCell(c) /\ UNCHANGED <<steps, snapshot, callers, agent>>
    \/ \E i \in Indices, j \in Indices : moveCell(i, j) /\ UNCHANGED <<steps, snapshot, callers, agent>>
    \/ \E i \in Indices : deleteCell(i) /\ UNCHANGED <<steps, snapshot, callers, agent>>

SpecMove == Init /\ [][NextMove]_vars

\* exporting a notebook between edits and runs, in runs of at most MaxOps - 1
\* operations
NextExport ==
    \/ \E c \in MdContents : Tick(MaxOps - 1) /\ createMarkdownCell(c) /\ Snap /\ UNCHANGED <<callers, agent>>
    \/ \E c \in {ProgAssignAdd, ProgPrint} :
          Tick(MaxOps - 1) /\ createCodeCell(c) /\ Snap /\ UNCHANGED <<callers, agent>>
    \/ \E i \in Indices : Tick(MaxOps - 1) /\ executeCodeCell(i) /\ Snap /\ UNCHANGED <<callers, agent>>
    \/ \E f \in SaveNames : Tick(MaxOps - 1) /\ saveNotebook(f) /\ Snap /\ UNCHANGED <<callers, agent>>
    \/ \E f \in SaveNames, fmt \in Formats, callable \in BOOLEAN :
          Tick(MaxOps - 1) /\ exportNotebook(f, fmt, callable) /\ Snap /\ UNCHANGED <<callers, agent>>

SpecExport == Init /\ [][NextExport]_vars

\* saving with the saveNotebook of main.py between edits and runs, in runs of
\* at most MaxOps - 1 operations
NextMain ==
    \/ \E c \in MdContents : Tick(MaxOps - 1) /\ createMarkdownCell(c) /\ Snap /\ UNCHANGED <<callers, agent>>
    \/ \E c \in {ProgAssignAdd, ProgDivZero} :
          Tick(MaxOps - 1) /\ createCodeCell(c) /\ Snap /\ UNCHANGED <<callers, agent>>
    \/ \E i \in Indices : Tick(MaxOps - 1) /\ executeCodeCell(i) /\ Snap /\ UNCHANGED <<callers, agent>>
    \/ Tick(MaxOps - 1) /\ restartKernel /\ Snap /\ UNCHANGED <<callers, agent>>
    \/ \E f \in SaveNames : Tick(MaxOps - 1) /\ main_saveNotebook(f) /\ Snap /\ UNCHANGED <<callers, agent>>

SpecMain == Init /\ [][NextMain]_vars

\* the cell and execution tools of main.py, in runs of at most MaxOps - 1 operations
MainContents == {ProgAssignAdd, ProgUnprintable, ProgPrintThenRaise}

NextMainTools ==
    \/ \E c \in MdContents \cup BlankContents :
          Tick(MaxOps - 1) /\ main_createMarkdownCell(c) /\ Snap /\ UNCHANGED <<callers, agent>>
    \/ \E c \in MainContents : Tick(MaxOps - 1) /\ main_createCodeCell(c) /\ Snap /\ UNCHANGED <<callers, agent>>
    \/ \E c \in MdContents, i \in Indices :
          Tick(MaxOps - 1) /\ main_insertMarkdownCell(c, i) /\ Snap /\ UNCHANGED <<callers, agent>>
    \/ \E c \in UpdateContents, i \in Indices :
          Tick(MaxOps - 1) /\ main_insertCodeCell(c, i) /\ Snap /\ UNCHANGED <<callers, agent>>
    \/ \E c \in UpdateContents, i \in Indices :
          Tick(MaxOps - 1) /\ main_updateCell(i, c) /\ Snap /\ UNCHANGED <<callers, agent>>
    \/ \E i \in Indices : Tick(MaxOps - 1) /\ main_deleteCell(i) /\ Snap /\ UNCHANGED <<callers, agent>>
    \/ \E i \in Indices, j \in Indices :
          Tick(MaxOps - 1) /\ main_moveCell(i, j) /\ Snap /\ UNCHANGED <<callers, agent>>
    \/ \E i \in Indices : Tick(MaxOps - 1) /\ main_getCellContent(i) /\ Snap /\ UNCHANGED <<callers, agent>>
    \/ Tick(MaxOps - 1) /\ main_getHistoryInfo /\ Snap /\ UNCHANGED <<callers, agent>>
    \/ \E i \in Indices : Tick(MaxOps - 1) /\ main_executeCodeCell(i) /\ Snap /\ UNCHANGED <<callers, agent>>
    \/ Tick(MaxOps - 1) /\ main_executeAllCells /\ Snap /\ UNCHANGED <<callers, agent>>
    \/ Tick(MaxOps - 1) /\ main_restartKernel /\ Snap /\ UNCHANGED <<callers, agent>>
    \/ Tick(MaxOps - 1) /\ main_clearHistory /\ Snap /\ UNCHANGED <<callers, agent>>
    \/ Tick(MaxOps - 1) /\ main_getExecutionContext /\ Snap /\ UNCHANGED <<callers, agent>>

SpecMainTools == Init /\ [][NextMainTools]_vars

\* editing, running and resetting cells, and saving and loading the notebook
\* under the names saveNotebook writes, in runs of at most MaxOps operations
NextCounts ==
    \/ \E c \in {ProgAssignAdd} : Tick(MaxOps) /\ createCodeCell(c) /\ Snap /\ UNCHANGED <<callers, agent>>
    \/ \E c \in MdContents, i \in Indices :
          Tick(MaxOps) /\ insertMarkdownCell(c, i) /\ Snap /\ UNCHANGED <<callers, agent>>
    \/ \E c \in UpdateContents, i \in Indices :
          Tick(MaxOps) /\ insertCodeCell(c, i) /\ Snap /\ UNCHANGED <<callers, agent>>
    \/ \E c \in UpdateContents, i \in Indices :
          Tick(MaxOps) /\ updateCell(i, c) /\ Snap /\ UNCHANGED <<callers, agent>>
    \/ \E i \in Indices : Tick(MaxOps) /\ deleteCell(i) /\ Snap /\ UNCHANGED <<callers, agent>>
    \/ \E i \in Indices, j \in Indices : Tick(MaxOps) /\ moveCell(i, j) /\ Snap /\ UNCHANGED <<callers, agent>>
    \/ \E i \in Indices : Tick(MaxOps) /\ executeCodeCell(i) /\ Snap /\ UNCHANGED <<callers, agent>>
    \/ Tick(MaxOps) /\ executeAllCells /\ Snap /\ UNCHANGED <<callers, agent>>
    \/ Tick(MaxOps) /\ restartKernel /\ Snap /\ UNCHANGED <<callers, agent>>
    \/ Tick(MaxOps) /\ clearHistory /\ Snap /\ UNCHANGED <<callers, agent>>
    \/ \E f \in SaveNames : Tick(MaxOps) /\ saveNotebook(f) /\ Snap /\ UNCHANGED <<callers, agent>>
    \/ \E f \in SaveNames : Tick(MaxOps) /\ loadNotebook(f) /\ Snap /\ UNCHANGED <<callers, agent>>

SpecCounts == Init /\ [][NextCounts]_vars

\* creating, running and resetting cells, in runs of any length
NextExec ==
    \/ \E c \in MdContents : createMarkdownCell(c) /\ UNCHANGED <<steps, snapshot, callers, agent>>
    \/ \E c \in CodeContents \cup FailingContents :
          createCodeCell(c) /\ UNCHANGED <<steps, snapshot, callers, agent>>
    \/ \E i \in Indices : deleteCell(i) /\ UNCHANGED <<steps, snapshot, callers, agent>>
    \/ clearHistory /\ UNCHANGED <<steps, snapshot, callers, agent>>
    \/ \E i \in Indices : executeCodeCell(i) /\ UNCHANGED <<steps, snapshot, callers, agent>>
    \/ executeAllCells /\ UNCHANGED <<steps, snapshot, callers, agent>>
    \/ restartKernel /\ UNCHANGED <<steps, snapshot, callers, agent>>

SpecExec == Init /\ [][NextExec]_vars

\* saving and loading notebooks between runs and edits, in runs of at most
\* MaxOps + 1 operations
NextPersist ==
    \/ \E c \in MdContents : Tick(MaxOps + 1) /\ createMarkdownCell(c) /\ Snap /\ UNCHANGED <<callers, agent>>
    \/ \E c \in {ProgAssignAdd, ProgSurrogate} : Tick(MaxOps + 1) /\ createCodeCell(c) /\ Snap /\ UNCHANGED <<callers, agent>>
    \/ \E i \in Indices : Tick(MaxOps + 1) /\ deleteCell(i) /\ Snap /\ UNCHANGED <<callers, agent>>
    \/ \E i \in Indices : Tick(MaxOps + 1) /\ executeCodeCell(i) /\ Snap /\ UNCHANGED <<callers, agent>>
    \/ Tick(MaxOps + 1) /\ restartKernel /\ Snap /\ UNCHANGED <<callers, agent>>
    \/ \E f \in SaveNames : Tick(MaxOps + 1) /\ saveNotebook(f) /\ Snap /\ UNCHANGED <<callers, agent>>
    \/ \E f \in FileNames : Tick(MaxOps + 1) /\ loadNotebook(f) /\ Snap /\ UNCHANGED <<callers, agent>>

SpecPersist == Init /\ [][NextPersist]_vars

\* editing, reading and running the cells of one small notebook, in runs of
\* at most MaxOps operations
NextEdit ==
    \/ \E c \in MdContents \cup BlankContents :
          Tick(MaxOps) /\ createMarkdownCell(c) /\ Snap /\ UNCHANGED <<callers, agent>>
    \/ \E c \in {ProgAssignAdd} \cup BlankContents :
          Tick(MaxOps) /\ createCodeCell(c) /\ Snap /\ UNCHANGED <<callers, agent>>
    \/ \E c \in MdContents \cup BlankContents, i \in Indices :
          Tick(MaxOps) /\ insertMarkdownCell(c, i) /\ Snap /\ UNCHANGED <<callers, agent>>
    \/ \E c \in {ProgAssignAdd} \cup BlankContents, i \in Indices :
          Tick(MaxOps) /\ insertCodeCell(c, i) /\ Snap /\ UNCHANGED <<callers, agent>>
    \/ \E c \in UpdateContents \cup BlankContents, i \in Indices :
          Tick(MaxOps) /\ updateCell(i, c) /\ Snap /\ UNCHANGED <<callers, agent>>
    \/ \E i \in Indices : Tick(MaxOps) /\ deleteCell(i) /\ Snap /\ UNCHANGED <<callers, agent>>
    \/ \E i \in Indices, j \in Indices : Tick(MaxOps) /\ moveCell(i, j) /\ Snap /\ UNCHANGED <<callers, agent>>
    \/ \E i \in Indices : Tick(MaxOps) /\ getCellContent(i) /\ Snap /\ UNCHANGED <<callers, agent>>
    \/ \E i \in Indices : Tick(MaxOps) /\ executeCodeCell(i) /\ Snap /\ UNCHANGED <<callers, agent>>

SpecEdit == Init /\ [][NextEdit]_vars

\* the sources the kernel is given: they print, bind, raise and leave
KernelContents ==
    {ProgAssignAdd, ProgPrint, ProgPrintThenX, ProgPrintThenRaise, ProgPrintThenExit,
     ProgUnprintable}

\* running code in the kernel and looking at what it left behind, in runs of
\* at most MaxOps - 1 operations
NextKernel ==
    \/ \E c \in KernelContents : Tick(MaxOps - 1) /\ createCodeCell(c) /\ Snap /\ UNCHANGED <<callers, agent>>
    \/ \E c \in KernelContents \cup BlankContents : Tick(MaxOps - 1) /\ runCell(c) /\ Snap /\ UNCHANGED <<callers, agent>>
    \/ \E i \in Indices : Tick(MaxOps - 1) /\ executeCodeCell(i) /\ Snap /\ UNCHANGED <<callers, agent>>
    \/ Tick(MaxOps - 1) /\ executeAllCells /\ Snap /\ UNCHANGED <<callers, agent>>
    \/ Tick(MaxOps - 1) /\ restartKernel /\ Snap /\ UNCHANGED <<callers, agent>>
    \/ Tick(MaxOps - 1) /\ getExecutionContext /\ Snap /\ UNCHANGED <<callers, agent>>
    \/ \E f \in SaveNames : Tick(MaxOps - 1) /\ saveNotebook(f) /\ Snap /\ UNCHANGED <<callers, agent>>

SpecKernel == Init /\ [][NextKernel]_vars

\* two callers inside the cell tools at once, their statements interleaved
NextConc ==
    \/ \E c \in MdContents : createMarkdownCell(c) /\ UNCHANGED <<steps, snapshot, callers, agent>>
    \/ \E c \in UpdateContents : createCodeCell(c) /\ UNCHANGED <<steps, snapshot, callers, agent>>
    \/ \E c \in Callers, i \in Indices, j \in Indices :
          moveCellCheck(c, i, j) /\ UNCHANGED <<steps, snapshot, agent>>
    \/ \E c \in Callers : moveCellPop(c) /\ UNCHANGED <<steps, snapshot, agent>>
    \/ \E c \in Callers : moveCellInsert(c) /\ UNCHANGED <<steps, snapshot, agent>>
    \/ \E c \in Callers, i \in Indices : deleteCellCheck(c, i) /\ UNCHANGED <<steps, snapshot, agent>>
    \/ \E c \in Callers : deleteCellPop(c) /\ UNCHANGED <<steps, snapshot, agent>>
    \/ \E c \in Callers : getHistoryInfo(c) /\ UNCHANGED <<steps, snapshot, agent>>

SpecConc == Init /\ [][NextConc]_vars

\* the cells of two calls of run_cell that are under way at once
OverlapContents == {ProgPrint, ProgAssignAdd}

\* two callers inside run_cell at once, in runs of at most MaxOps + 1 steps
NextOverlap ==
    \/ \E c \in Callers, code \in OverlapContents :
          Tick(MaxOps + 1) /\ runCellEnter(c, code) /\ UNCHANGED <<snapshot, agent>>
    \/ \E c \in Callers : Tick(MaxOps + 1) /\ runCellTry(c) /\ UNCHANGED <<snapshot, agent>>
    \/ \E c \in Callers : Tick(MaxOps + 1) /\ runCellFinally(c) /\ UNCHANGED <<snapshot, agent>>

SpecOverlap == Init /\ [][NextOverlap]_vars

\* what the agent graph leaves alone
NotebookUnchanged ==
    UNCHANGED <<history, execution_context, global_execution_count, files, sys_stdout,
                callers, ret, steps, snapshot>>

\* one run of the agent graph: the node that is due runs
NextAgent ==
    \/ \E tools \in BOOLEAN, o \in Outcomes : entry(tools, o) /\ NotebookUnchanged
    \/ \E o \in Outcomes : code_attempt(o) /\ NotebookUnchanged
    \/ \E a \in Answers : refining(a) /\ NotebookUnchanged
    \/ \E o \in FinishOutcomes : finished(o) /\ NotebookUnchanged

\* the graph runs the node that is due as soon as the one before it has
\* returned, and every awaited call of a node returns or raises
SpecAgent == Init /\ [][NextAgent]_vars /\ WF_vars(NextAgent)

(* ------------------------------ properties ------------------------------ *)

ExecOps == {"executeCodeCell", "executeAllCells"}

ResetOps == {"restartKernel", "clearHistory"}

\* the list positions of the code cells that hold an execution count
Counted(h) ==
    {i \in 1..Len(h) : h[i].cell_type = "code" /\ ~IsNone(h[i].execution_count)}

\* the bag of the execution counts the cells of h hold
Counts(h) ==
    [n \in {h[i].execution_count : i \in Counted(h)} |->
        Cardinality({i \in Counted(h) : h[i].execution_count = n})]

\* the step returned a dict (no exception left it)
Returned(r) == "raised" \notin DOMAIN r

\* C1: without restartKernel, clearHistory or loadNotebook, executions hand
\* out the counter values one by one: executeCodeCell returns the current
\* global_execution_count and leaves it one higher, executeAllCells returns
\* global_execution_count, +1, +2, ... in order and leaves the counter past
\* the last of them, creating and deleting cells leaves the counter alone,
\* and so no two cells ever hold the same count and none holds a count the
\* counter has yet to hand out.
C1_CountsHandedOutOneByOne ==
    /\ [](\A i \in Counted(history) :
             /\ history[i].execution_count.n < global_execution_count
             /\ \A j \in Counted(history) :
                   history[i].execution_count = history[j].execution_count => i = j)
    /\ [][/\ (ret'.op = "executeCodeCell" /\ Returned(ret') /\ ret'.executed)
               => /\ ret'.execution_count = global_execution_count
                  /\ global_execution_count' = global_execution_count + 1
          /\ (ret'.op = "executeAllCells" /\ Returned(ret'))
               => /\ \A k \in 1..Len(ret'.results) :
                        ret'.results[k].execution_count = global_execution_count + k - 1
                  /\ global_execution_count' = global_execution_count + Len(ret'.results)
          /\ ret'.op \notin ExecOps \cup ResetOps
               => global_execution_count' = global_execution_count]_vars

\* C1 witness: executeAllCells ran two cells after an earlier execution and
\* handed out 2 and 3
C1_Witness ==
    /\ ret.op = "executeAllCells"
    /\ Returned(ret)
    /\ Len(ret.results) = 2
    /\ ret.results[1].execution_count = 2
    /\ ret.results[2].execution_count = 3
    /\ global_execution_count = 4

C3_OnlyExecutionWritesAndRaises ==
    [][/\ ret'.op \notin ExecOps \cup {"deleteCell", "clearHistory", "loadNotebook"}
            => Counts(history') = Counts(history)
       /\ ret'.op \in {"deleteCell", "clearHistory"}
            => Counts(history') \sqsubseteq Counts(history)
       /\ ret'.op \in ExecOps
            => /\ Len(history') = Len(history)
               /\ \A i \in Counted(history) :
                     /\ i \in Counted(history')
                     /\ history'[i].execution_count.n >= history[i].execution_count.n]_vars

\* C3 (amended): an execution sets the count of the cell it ran to the
\* counter value handed out and leaves the other cells' counts; restartKernel
\* clears the count of every code cell; the cell tools and saveNotebook leave
\* the counts the cells hold (deleteCell and clearHistory take away those of
\* the cells they remove); loadNotebook alone brings counts from outside.
C3_WritersOfExecutionCount ==
    [][/\ ret'.op \notin ExecOps \cup {"deleteCell", "clearHistory",
                                       "restartKernel", "loadNotebook"}
            => Counts(history') = Counts(history)
       /\ ret'.op \in {"deleteCell", "clearHistory"}
            => Counts(history') \sqsubseteq Counts(history)
       /\ ret'.op = "restartKernel"
            => Counted(history') = {} /\ Len(history') = Len(history)
       /\ (ret'.op = "executeCodeCell" /\ Returned(ret') /\ ret'.executed)
            => \E i \in 1..Len(history) :
                  /\ i \in Counted(history')
                  /\ history'[i].execution_count = PyInt(global_execution_count)
                  /\ \A j \in 1..Len(history) : j # i => history'[j] = history[j]
       /\ (ret'.op = "executeAllCells" /\ Returned(ret'))
            => \A k \in 1..Len(ret'.results) :
                  history'[ret'.results[k].index + 1].execution_count
                      = PyInt(global_execution_count + k - 1)]_vars

\* C3 witness: restartKernel has cleared the count of a cell that was saved
\* with one
C3_Witness ==
    /\ ret.op = "restartKernel"
    /\ snapshot.saved
    /\ Len(snapshot.history) = Len(history)
    /\ \E i \in Counted(snapshot.history) :
          /\ history[i].cell_type = "code"
          /\ IsNone(history[i].execution_count)

\* the bag of the cells of h
CellBag(h) ==
    [c \in {h[i] : i \in 1..Len(h)} |-> Cardinality({i \in 1..Len(h) : h[i] = c})]

\* C4: a loadNotebook that succeeds on a file saveNotebook wrote leaves the
\* history as it was when the file was last saved (the same cells in the same
\* order, with type, source, execution_count and outputs) and the
\* global_execution_count of that moment, whatever was done in between.
C4_SaveLoadRoundTrip ==
    [][(/\ ret'.op = "loadNotebook"
        /\ ret'.loaded
        /\ ret'.message.filepath \in SaveNames)
          => /\ snapshot.saved
             /\ history' = snapshot.history
             /\ global_execution_count' = snapshot.count]_vars

\* C4 witness: a notebook saved with an executed two-line cell is back after
\* restartKernel had cleared the cell and the counter
C4_Witness ==
    /\ ret.op = "loadNotebook"
    /\ ret.loaded
    /\ ret.message.filepath \in SaveNames
    /\ execution_context = EmptyCtx
    /\ global_execution_count = 2
    /\ history = snapshot.history
    /\ \E i \in Counted(history) :
          /\ history[i].source = ProgAssignAdd
          /\ history[i].execution_count = PyInt(1)
          /\ history[i].outputs # <<>>

\* C5: history stays a sequence addressed by 0..len-1: a successful create
\* or insert makes it one longer, a successful delete one shorter, a move
\* keeps the length and the bag of cells, and every cell tool that fails
\* leaves it as it was.
C5_HistoryStaysGapFree ==
    [][/\ DOMAIN history' = 1..Len(history')
       /\ ret'.op \in {"createMarkdownCell", "createCodeCell",
                       "insertMarkdownCell", "insertCodeCell"}
            => IF ret'.created
               THEN /\ Len(history') = Len(history) + 1
                    /\ 0 <= ret'.index /\ ret'.index < Len(history')
                    /\ SubSeq(history', 1, ret'.index) = SubSeq(history, 1, ret'.index)
                    /\ SubSeq(history', ret'.index + 2, Len(history'))
                          = SubSeq(history, ret'.index + 1, Len(history))
               ELSE history' = history
       /\ ret'.op = "deleteCell"
            => IF ret'.deleted
               THEN /\ Len(history') = Len(history) - 1
                    /\ ret'.new_total = Len(history')
                    /\ CellBag(history') \sqsubseteq CellBag(history)
               ELSE history' = history
       /\ ret'.op = "moveCell"
            => IF ret'.moved
               THEN /\ Len(history') = Len(history)
                    /\ CellBag(history') = CellBag(history)
               ELSE history' = history
       /\ ret'.op = "updateCell"
            => IF ret'.updated
               THEN Len(history') = Len(history)
               ELSE history' = history
       /\ \A i \in Indices :
             /\ deleteCell(i) => (ret'.deleted <=> (0 <= i /\ i < Len(history)))
             /\ \A j \in Indices :
                   moveCell(i, j) => (ret'.moved <=> (/\ 0 <= i /\ i < Len(history)
                                                      /\ 0 <= j /\ j < Len(history)))]_vars

\* C5 witness: moveCell has swapped two different cells
C5_Witness ==
    /\ ret.op = "moveCell"
    /\ ret.moved
    /\ ret.message = Msg("cell moved")
    /\ Len(history) = 2
    /\ history[1] # history[2]

\* C6: a loadNotebook that fails leaves history, execution_context and
\* global_execution_count as they were before the call.
C6_FailedLoadChangesNothing ==
    [][(ret'.op = "loadNotebook" /\ ~ret'.loaded)
          => UNCHANGED <<history, execution_context, global_execution_count>>]_vars

\* C7: saveNotebook creates or replaces a file only with the full JSON text
\* of the notebook: when it returns saved = false the directory is as it was.
C7_WriteAfterValidate ==
    [][ret'.op = "saveNotebook"
          => \A f \in DOMAIN files :
                \/ files'[f] = files[f]
                \/ /\ ret'.saved
                   /\ files'[f] = TextFile(NotebookData(history, execution_context,
                                                        global_execution_count))]_vars

\* C8: no exception of the code of a cell leaves executeCodeCell or
\* executeAllCells: every call returns a dict.
C8_NoExceptionEscapes == Returned(ret)

\* C9 (as stated): after a cell "x = 2\nx + 3" returned result 5 without
\* error, the next executeCodeCell, on a cell with source "x", returns
\* result 5.
C9_NextCellReturnsFive ==
    [][\A i \in 0..(Len(history) - 1) :
          (/\ ret.op = "executeCodeCell" /\ Returned(ret) /\ ret.executed
           /\ ret.result = PyInt(5) /\ IsNone(ret.error)
           /\ history[i + 1].cell_type = "code"
           /\ history[i + 1].source = ProgX
           /\ executeCodeCell(i))
             => ret'.result = PyInt(5)]_vars

\* C9 (amended): after a cell "x = 2\nx + 3" returned result 5 without
\* error, the next executeCodeCell, on a cell with source "x", returns
\* result 2 without error: the binding x = 2 the first execution made is
\* visible to the next (5 was the value of x + 3 and was bound to nothing).
C9_NextCellReturnsTwo ==
    [][\A i \in 0..(Len(history) - 1) :
          (/\ ret.op = "executeCodeCell" /\ Returned(ret) /\ ret.executed
           /\ ret.result = PyInt(5) /\ IsNone(ret.error)
           /\ history[i + 1].cell_type = "code"
           /\ history[i + 1].source = ProgX
           /\ executeCodeCell(i))
             => /\ Returned(ret')
                /\ ret'.executed
                /\ ret'.result = PyInt(2)
                /\ IsNone(ret'.error)]_vars

\* C9 witness: a cell "x" has just returned 2, right after the cell
\* "x = 2\nx + 3" whose output is 5
C9_Witness ==
    /\ ret.op = "executeCodeCell"
    /\ Returned(ret)
    /\ ret.result = PyInt(2)
    /\ \E i \in Counted(history), j \in Counted(history) :
          /\ history[i].source = ProgAssignAdd
          /\ history[i].execution_count = PyInt(ret.execution_count - 1)
          /\ history[i].outputs # <<>>
          /\ history[i].outputs[1].data = <<"5">>
          /\ history[j].source = ProgX
          /\ history[j].execution_count = PyInt(ret.execution_count)

\* C10: every executeCodeCell on the index of a code cell gives the cell
\* the counter value of before the call and leaves the counter one higher,
\* whether or not the code raises; when the code raised, the returned error
\* is not null and the returned result is null.
C10_EveryRunConsumesOneCount ==
    [][\A i \in 0..(Len(history) - 1) :
          (history[i + 1].cell_type = "code" /\ executeCodeCell(i))
             => /\ history'[i + 1].execution_count = PyInt(global_execution_count)
                /\ global_execution_count' = global_execution_count + 1
                /\ Returned(ret')
                /\ ret'.execution_count = global_execution_count
                /\ history[i + 1].source \in {ProgDivZero, ProgExit}
                      => ~IsNone(ret'.error) /\ IsNone(ret'.result)]_vars

\* the source of the cell the last executeCodeCell ran, when r is its return
LastRun(h, r) ==
    {h[i].source : i \in {j \in Counted(h) : h[j].execution_count = PyInt(r.execution_count)}}

\* C11: a cell that binds x and then raises, with the raising line as last
\* expression or as a statement before a last line that is no expression,
\* returns an error and leaves x bound in the execution context, and an
\* executeCodeCell on a cell "x" right after it returns that value.
C11_NoRollbackOnError ==
    [][\A i \in 0..(Len(history) - 1) :
          /\ (/\ history[i + 1].cell_type = "code"
              /\ history[i + 1].source \in {ProgBindThenRaise, ProgBindRaiseComment}
              /\ executeCodeCell(i))
                => /\ ~IsNone(ret'.error)
                   /\ IsNone(ret'.result)
                   /\ "x" \in DOMAIN execution_context'
                   /\ execution_context'["x"] = PyInt(2)
          /\ (/\ ret.op = "executeCodeCell" /\ Returned(ret) /\ ret.executed
              /\ ~IsNone(ret.error)
              /\ LastRun(history, ret) \subseteq {ProgBindThenRaise, ProgBindRaiseComment}
              /\ history[i + 1].cell_type = "code"
              /\ history[i + 1].source = ProgX
              /\ executeCodeCell(i))
                => /\ ret'.result = PyInt(2)
                   /\ IsNone(ret'.error)]_vars

\* C11 witness: a cell "x" has returned 2 right after the run of a cell
\* whose statement after the binding raised, and no other cell has run
C11_Witness ==
    /\ ret.op = "executeCodeCell"
    /\ Returned(ret)
    /\ ret.result = PyInt(2)
    /\ ret.execution_count = 2
    /\ Len(history) = 2
    /\ history[1].source = ProgBindRaiseComment
    /\ history[1].execution_count = PyInt(1)
    /\ history[1].outputs # <<>>
    /\ history[1].outputs[1].output_type = "error"
    /\ history[2].source = ProgX
    /\ history[2].execution_count = PyInt(2)

\* the list positions of the code cells of h
CodePositions(h) == {i \in 1..Len(h) : h[i].cell_type = "code"}

\* the place of the code cell at list position p among the code cells of h
Rank(h, p) == Cardinality({q \in CodePositions(h) : q <= p})

\* C12: executeAllCells runs every code cell once, in document order, past
\* the cells whose code raised: with k code cells and the counter at c, the
\* code cells get the counts c .. c+k-1 in document order, the counter ends
\* at c+k, the results are the k code cells in document order, markdown
\* cells are left alone, and executed is true exactly when no result holds
\* an error.
C12_RunsEveryCodeCellInOrder ==
    [][executeAllCells
          => /\ Returned(ret')
             /\ Len(history') = Len(history)
             /\ global_execution_count'
                   = global_execution_count + Cardinality(CodePositions(history))
             /\ Len(ret'.results) = Cardinality(CodePositions(history))
             /\ \A p \in CodePositions(history) :
                   /\ history'[p].execution_count
                         = PyInt(global_execution_count + Rank(history, p) - 1)
                   /\ history'[p].source = history[p].source
                   /\ ret'.results[Rank(history, p)].index = p - 1
                   /\ ret'.results[Rank(history, p)].execution_count
                         = global_execution_count + Rank(history, p) - 1
             /\ \A p \in (1..Len(history)) \ CodePositions(history) :
                   history'[p] = history[p]
             /\ ret'.executed
                   <=> \A j \in 1..Len(ret'.results) : IsNone(ret'.results[j].error)]_vars

\* C13: after restartKernel the execution context is empty, every code cell
\* has execution_count null and no outputs, and the counter is 1; a second
\* restartKernel right after it changes nothing; and a cell "x" executed
\* right after a restart finds no binding of x.
C13_RestartIsIdempotent ==
    [][/\ ret'.op = "restartKernel"
            => /\ execution_context' = EmptyCtx
               /\ global_execution_count' = 1
               /\ Len(history') = Len(history)
               /\ \A i \in 1..Len(history) :
                     /\ history'[i].cell_type = history[i].cell_type
                     /\ history'[i].source = history[i].source
                     /\ history'[i].cell_type = "code"
                           => /\ IsNone(history'[i].execution_count)
                              /\ history'[i].outputs = <<>>
       /\ (ret.op = "restartKernel" /\ ret'.op = "restartKernel")
            => UNCHANGED <<history, execution_context, global_execution_count, files>>
       /\ \A i \in 0..(Len(history) - 1) :
             (/\ ret.op = "restartKernel"
              /\ history[i + 1].cell_type = "code"
              /\ history[i + 1].source = ProgX
              /\ executeCodeCell(i))
                => /\ ret'.error = PyText(FormatExc("NameError"))
                   /\ IsNone(ret'.result)
                   /\ "x" \notin DOMAIN execution_context']_vars

\* C13 witness: restartKernel has emptied the context and the cell of a
\* notebook that was saved with x bound, an executed cell and its output
C13_Witness ==
    /\ ret.op = "restartKernel"
    /\ execution_context = EmptyCtx
    /\ global_execution_count = 1
    /\ files["nb"].kind = "text"
    /\ "x" \in DOMAIN files["nb"].data.user_variables
    /\ Len(history) = Len(files["nb"].data.cells)
    /\ \E i \in 1..Len(history) :
          /\ history[i].cell_type = "code"
          /\ IsNone(history[i].execution_count)
          /\ history[i].outputs = <<>>
          /\ files["nb"].data.cells[i].cell_type = "code"
          /\ files["nb"].data.cells[i].outputs # <<>>

\* the message m states the range lo..hi
StatesRange(m, lo, hi) ==
    /\ {"lo", "hi"} \subseteq DOMAIN m
    /\ m.lo = lo
    /\ m.hi = hi

\* the document is as it was before the step
DocumentUnchanged == UNCHANGED <<history, execution_context, global_execution_count>>

\* index is no position of a cell of h
OutOfRange(h, index) == index < 0 \/ index >= Len(h)

\* what getCellContent, updateCell, deleteCell, moveCell and executeCodeCell
\* do with an index that is no position of a cell
InvalidIndexReported ==
    /\ ret'.op = "getCellContent"
          => \A i \in Indices :
                (OutOfRange(history, i) /\ getCellContent(i))
                   => /\ ~ret'.found
                      /\ DocumentUnchanged
                      /\ StatesRange(ret'.content, 0, Len(history) - 1)
    /\ ret'.op = "updateCell"
          => \A i \in Indices, c \in UpdateContents \cup BlankContents :
                (OutOfRange(history, i) /\ updateCell(i, c))
                   => /\ ~ret'.updated
                      /\ DocumentUnchanged
                      /\ StatesRange(ret'.message, 0, Len(history) - 1)
    /\ ret'.op = "deleteCell"
          => \A i \in Indices :
                (OutOfRange(history, i) /\ deleteCell(i))
                   => /\ ~ret'.deleted
                      /\ DocumentUnchanged
                      /\ StatesRange(ret'.message, 0, Len(history) - 1)
    /\ ret'.op = "executeCodeCell"
          => \A i \in Indices :
                (OutOfRange(history, i) /\ executeCodeCell(i))
                   => /\ ~ret'.executed
                      /\ DocumentUnchanged
                      /\ StatesRange(ret'.message, 0, Len(history) - 1)
    /\ ret'.op = "moveCell"
          => \A i \in Indices, j \in Indices :
                ((OutOfRange(history, i) \/ OutOfRange(history, j)) /\ moveCell(i, j))
                   => /\ ~ret'.moved
                      /\ DocumentUnchanged
                      /\ StatesRange(ret'.message, 0, Len(history) - 1)

\* C14 (as stated): every operation given an index outside its range (0 to
\* len-1; 0 to len for the two inserts) fails, leaves history, execution
\* context and counter as they were, and states that range in its message.
C14_InvalidIndexStatesRange ==
    [][/\ InvalidIndexReported
       /\ ret'.op = "insertMarkdownCell"
             => \A i \in Indices, c \in MdContents \cup BlankContents :
                   ((i < 0 \/ i > Len(history)) /\ insertMarkdownCell(c, i))
                      => /\ ~ret'.created
                         /\ DocumentUnchanged
                         /\ StatesRange(ret'.message, 0, Len(history))
       /\ ret'.op = "insertCodeCell"
             => \A i \in Indices, c \in {ProgAssignAdd} \cup BlankContents :
                   ((i < 0 \/ i > Len(history)) /\ insertCodeCell(c, i))
                      => /\ ~ret'.created
                         /\ DocumentUnchanged
                         /\ StatesRange(ret'.message, 0, Len(history))]_vars

\* C14 (amended): getCellContent, updateCell, deleteCell, executeCodeCell and
\* moveCell given an index outside 0..len-1, and the two inserts given an
\* index outside 0..len, fail and leave history, execution context and
\* counter as they were; the message states the range, except that an insert
\* whose content is empty or blank reports the empty content instead, as the
\* inserts test the content before the index.
C14_InvalidIndexFails ==
    [][/\ InvalidIndexReported
       /\ ret'.op = "insertMarkdownCell"
             => \A i \in Indices, c \in MdContents \cup BlankContents :
                   ((i < 0 \/ i > Len(history)) /\ insertMarkdownCell(c, i))
                      => /\ ~ret'.created
                         /\ DocumentUnchanged
                         /\ IF IsEmptyContent(c)
                            THEN ret'.message = Msg("Content cannot be empty")
                            ELSE StatesRange(ret'.message, 0, Len(history))
       /\ ret'.op = "insertCodeCell"
             => \A i \in Indices, c \in {ProgAssignAdd} \cup BlankContents :
                   ((i < 0 \/ i > Len(history)) /\ insertCodeCell(c, i))
                      => /\ ~ret'.created
                         /\ DocumentUnchanged
                         /\ IF IsEmptyContent(c)
                            THEN ret'.message = Msg("Content cannot be empty")
                            ELSE StatesRange(ret'.message, 0, Len(history))]_vars

\* C14 witness: moveCell has refused a target index past the end of a
\* two-cell history, after a cell had run
C14_Witness ==
    /\ ret.op = "moveCell"
    /\ ~ret.moved
    /\ ret.message = MsgInvalidIndex("Invalid to_index", history)
    /\ ret.message.hi = 1
    /\ global_execution_count = 2
    /\ "x" \in DOMAIN execution_context

\* the step is a call with empty or blank content that failed as such and
\* left the document as it was
EmptyContentReported ==
    /\ ret'.message = Msg("Content cannot be empty")
    /\ DocumentUnchanged

\* C15 (as stated): createMarkdownCell, createCodeCell, insertMarkdownCell,
\* insertCodeCell and updateCell given empty or blank content fail with the
\* empty-content result and leave history, execution context and counter as
\* they were.
C15_EmptyContentRejected ==
    [][\A c \in BlankContents :
          /\ (ret'.op = "createMarkdownCell" /\ createMarkdownCell(c)) => ~ret'.created /\ EmptyContentReported
          /\ (ret'.op = "createCodeCell" /\ createCodeCell(c)) => ~ret'.created /\ EmptyContentReported
          /\ \A i \in Indices :
                /\ (ret'.op = "insertMarkdownCell" /\ insertMarkdownCell(c, i))
                     => ~ret'.created /\ EmptyContentReported
                /\ (ret'.op = "insertCodeCell" /\ insertCodeCell(c, i))
                     => ~ret'.created /\ EmptyContentReported
                /\ (ret'.op = "updateCell" /\ updateCell(i, c))
                     => ~ret'.updated /\ EmptyContentReported]_vars

\* C15 (amended): createMarkdownCell, createCodeCell, insertMarkdownCell and
\* insertCodeCell (at any index) and updateCell at the index of a cell, given
\* empty or blank content, fail with the empty-content result; updateCell at
\* an index of no cell fails with the invalid-index result whatever the
\* content, as it tests the index first; in every case history, execution
\* context and counter are as they were.
C15_EmptyContentFails ==
    [][\A c \in BlankContents :
          /\ (ret'.op = "createMarkdownCell" /\ createMarkdownCell(c)) => ~ret'.created /\ EmptyContentReported
          /\ (ret'.op = "createCodeCell" /\ createCodeCell(c)) => ~ret'.created /\ EmptyContentReported
          /\ \A i \in Indices :
                /\ (ret'.op = "insertMarkdownCell" /\ insertMarkdownCell(c, i))
                     => ~ret'.created /\ EmptyContentReported
                /\ (ret'.op = "insertCodeCell" /\ insertCodeCell(c, i))
                     => ~ret'.created /\ EmptyContentReported
                /\ (ret'.op = "updateCell" /\ updateCell(i, c))
                     => /\ ~ret'.updated
                        /\ DocumentUnchanged
                        /\ IF OutOfRange(history, i)
                           THEN StatesRange(ret'.message, 0, Len(history) - 1)
                           ELSE ret'.message = Msg("Content cannot be empty")]_vars

\* C15 witness: updateCell has refused blank content for a cell that had run
C15_Witness ==
    /\ ret.op = "updateCell"
    /\ ~ret.updated
    /\ ret.message = Msg("Content cannot be empty")
    /\ Counted(history) # {}
    /\ global_execution_count > 1

\* C16: executeCodeCell on the index of a markdown cell returns executed =
\* false, execution_count = -1 and an error naming the cell type, and leaves
\* history, execution context and counter as they were.
C16_MarkdownCellNotExecuted ==
    [][\A i \in 0..(Len(history) - 1) :
          (history[i + 1].cell_type = "markdown" /\ executeCodeCell(i))
             => /\ Returned(ret')
                /\ ~ret'.executed
                /\ ret'.execution_count = 0 - 1
                /\ ret'.error.cell_type = "markdown"
                /\ IsNone(ret'.result)
                /\ DocumentUnchanged]_vars

\* C16 witness: a markdown cell next to a cell that has run was refused
C16_Witness ==
    /\ ret.op = "executeCodeCell"
    /\ Returned(ret)
    /\ ~ret.executed
    /\ ret.execution_count = 0 - 1
    /\ "cell_type" \in DOMAIN ret.error
    /\ ret.error.cell_type = "markdown"
    /\ Counted(history) # {}
    /\ global_execution_count = 2

\* the text the prints of a source write, for sources whose prints come
\* before anything that raises
RECURSIVE PrintsOf(_)
PrintsOf(code) ==
    IF code = <<>> THEN <<>>
    ELSE (IF code[1] = "print('a')" THEN PrintedA ELSE <<>>) \o PrintsOf(Tail(code))

\* C17: when a run_cell call is over, whichever way it went (blank source,
\* normal completion, an exception of the code), sys.stdout is the stream that
\* was installed before the call, and the stdout it returned is everything the
\* code printed; the same holds for the calls the two execution tools make.
C17_StdoutRestoredAndCaptured ==
    /\ [](sys_stdout = Terminal)
    /\ [][/\ ret'.op \in {"run_cell", "executeCodeCell", "executeAllCells"}
               => sys_stdout' = sys_stdout
          /\ (ret'.op = "run_cell" /\ ret'.raised = "")
               => ret'.stdout = PrintsOf(ret'.code)
          /\ \A i \in 0..(Len(history) - 1) :
                (ret'.op = "executeCodeCell" /\ executeCodeCell(i) /\ Returned(ret')
                   /\ ret'.executed)
                  => ret'.stdout = PrintsOf(history[i + 1].source)]_vars

\* C17 witness: a call whose code printed and then raised returned the printed
\* text with the error, and sys.stdout is the terminal again
C17_Witness ==
    /\ ret.op = "run_cell"
    /\ ret.code = ProgPrintThenRaise
    /\ ret.stdout = PrintedA
    /\ ~IsNone(ret.error)
    /\ sys_stdout = Terminal

\* the snapshot of a context: every binding whose name does not start with
\* "__", as a str, "<T>" standing for a value of type T whose str() raises
SnapshotOf(ctx) ==
    [k \in {n \in DOMAIN ctx : n \notin {"__builtins__"}} |->
        IF ctx[k].t = "object" THEN <<"<", ctx[k].type, ">">> ELSE StrOf(ctx[k])]

\* C18: the snapshot of the user variables never fails: getExecutionContext
\* succeeds and returns every binding without the "__" prefix as a str, with
\* "<TypeName>" for a value whose rendering raises, and saveNotebook saves
\* that snapshot.
C18_SnapshotNeverFails ==
    [][/\ ret'.op = "getExecutionContext"
            => /\ ret'.success
               /\ ret'.variables = SnapshotOf(execution_context)
               /\ ret'.variable_count = Cardinality(DOMAIN ret'.variables)
       /\ \A f \in SaveNames :
             ret'.op = "saveNotebook"
                => /\ ret'.saved
                   /\ files'[f].data.user_variables = SnapshotOf(execution_context)]_vars

\* the entries of a cells list that are markdown or code cells, in file order
KnownCells(cells) ==
    SelectSeq(cells, LAMBDA c : c.cell_type \in {"markdown", "code"})

\* the text of a source entry: a list of lines or one str
SourceText(source) == IF source.t = "list" THEN JoinNL(source.items) ELSE source.s

C20_ReindexAtomically ==
    [][\A c \in Callers :
          /\ getHistoryInfo(c) => \A d \in Callers : callers[d].pc # "move_popped"
          /\ (callers[c].pc = "move_checked" /\ callers'[c].pc # "move_checked")
                => callers[c].from_index < Len(history)
          /\ (callers[c].pc = "move_popped" /\ callers'[c].pc # "move_popped")
                => callers[c].to_index <= Len(history)
          /\ (callers[c].pc = "delete_checked" /\ callers'[c].pc # "delete_checked")
                => callers[c].index < Len(history)]_vars

\* the records a run with the returned stdout, result and error leaves, in
\* the order stream, execute_result, error
RecordsOf(r) ==
    (IF r.stdout # <<>>
     THEN <<[output_type |-> "stream", name |-> "stdout", text |-> r.stdout]>>
     ELSE <<>>)
    \o (IF ~IsNone(r.result)
        THEN <<[output_type |-> "execute_result",
                execution_count |-> r.execution_count, data |-> StrOf(r.result)]>>
        ELSE <<>>)
    \o (IF ~IsNone(r.error)
        THEN <<[output_type |-> "error", ename |-> "ExecutionError",
                traceback |-> SplitNL(r.error.s)]>>
        ELSE <<>>)

\* C21: after a successful executeCodeCell the outputs of the cell are the
\* records of that run alone, whatever the cell held before: a stream record
\* exactly when stdout is non-empty, then a result record exactly when the
\* result is not None, carrying the new execution_count, then an error record
\* exactly when the code raised.
C21_OutputsAreThoseOfTheRun ==
    [][\A i \in 0..(Len(history) - 1) :
          (ret'.op = "executeCodeCell" /\ executeCodeCell(i) /\ Returned(ret')
             /\ ret'.executed)
            => /\ history'[i + 1].outputs = RecordsOf(ret')
               /\ history'[i + 1].execution_count = PyInt(ret'.execution_count)]_vars

\* C21 witness: after an earlier execution, a cell printed and returned a
\* value, and holds the stream and the result record of that run
C21_Witness ==
    /\ ret.op = "executeCodeCell"
    /\ Returned(ret)
    /\ ret.executed
    /\ ret.execution_count > 1
    /\ ret.stdout = PrintedA
    /\ ret.result = PyInt(2)
    /\ \E i \in 1..Len(history) :
          /\ history[i].source = ProgPrintThenX
          /\ history[i].execution_count = PyInt(ret.execution_count)
          /\ Len(history[i].outputs) = 2
          /\ history[i].outputs[1].output_type = "stream"
          /\ history[i].outputs[2].output_type = "execute_result"

\* the list without the element at 0-based index p
Without(h, p) == SubSeq(h, 1, p) \o SubSeq(h, p + 2, Len(h))

\* C22: a successful moveCell(from, to) with from # to leaves the moved cell
\* at index to, the other cells in the order they had, and the length as it
\* was; with from = to it reports success and leaves history as it was.
C22_MovedCellAtTarget ==
    [][\A i \in Indices, j \in Indices :
          (ret'.op = "moveCell" /\ moveCell(i, j) /\ ret'.moved)
            => IF i = j
               THEN history' = history
               ELSE /\ Len(history') = Len(history)
                    /\ history'[j + 1] = history[i + 1]
                    /\ Without(history', j) = Without(history, i)]_vars

\* C22 witness: in a notebook of three different cells the first cell has been
\* moved to the middle
C22_Witness ==
    /\ ret.op = "moveCell"
    /\ ret.moved
    /\ ret.message = Msg("cell moved")
    /\ Len(history) = 3
    /\ history[1].source = ProgX
    /\ history[2].source = TextMd
    /\ history[3].source = ProgAssignAdd

\* C23: restartKernel leaves the sequence of cells as it was: as many cells,
\* in the same order, each of the type and with the source it had, and every
\* markdown cell the same in every field.
C23_RestartKeepsCells ==
    [][ret'.op = "restartKernel"
          => /\ Len(history') = Len(history)
             /\ \A i \in 1..Len(history) :
                   /\ history'[i].cell_type = history[i].cell_type
                   /\ history'[i].source = history[i].source
                   /\ history'[i].metadata = history[i].metadata
                   /\ history[i].cell_type = "markdown" => history'[i] = history[i]]_vars

\* C23 witness: a notebook of a markdown cell and a code cell that had run and
\* was saved has been restarted, and both cells are in place
C23_Witness ==
    /\ ret.op = "restartKernel"
    /\ snapshot.saved
    /\ Len(snapshot.history) = 2
    /\ snapshot.history[2].cell_type = "code"
    /\ snapshot.history[2].execution_count = PyInt(1)
    /\ history = <<MarkdownCell(TextMd), CodeCell(ProgAssignAdd, None)>>

\* C24: exportNotebook returns, for every format, json included, a record of
\* exported, filepath and message; exported is true exactly when the export
\* file was written; and for json the file is the one saveNotebook writes.
C24_ExportReturnsExportRecord ==
    [][\A f \in SaveNames, fmt \in Formats :
          (ret'.op = "exportNotebook" /\ \E callable \in BOOLEAN :
                                             exportNotebook(f, fmt, callable))
            => /\ DOMAIN ret' = {"op", "exported", "filepath", "message"}
               /\ IF ret'.exported
                  THEN /\ fmt \in {"json", "py", "md"}
                       /\ fmt = "json" =>
                             files'[f] = TextFile(NotebookData(history, execution_context,
                                                               global_execution_count))
                       /\ fmt # "json" => files'[ExportPath(f, fmt)].kind = "script"
                  ELSE files' = files]_vars

\* C25: the saveNotebook of main.py never leaves a truncated or partly written
\* file: it either writes the whole notebook and returns saved = true, or
\* returns saved = false and every file is as it was, also after code cells
\* have run.
C25_MainSaveKeepsFile ==
    [][\A f \in SaveNames :
          (ret'.op = "main.saveNotebook" /\ main_saveNotebook(f))
            => IF ret'.saved
               THEN files'[f] = TextFile(MainNotebookData(history, execution_context,
                                                          global_execution_count))
               ELSE files' = files]_vars

\* C26: with the cell and execution tools, the resets, and saveNotebook and
\* loadNotebook on the files saveNotebook wrote, every execution count in
\* history is below global_execution_count and no two cells carry the same
\* execution count.
C26_CountsBelowCounterAndDistinct ==
    /\ \A i \in Counted(history) :
          history[i].execution_count.n < global_execution_count
    /\ \A i \in Counted(history), j \in Counted(history) :
          i # j => history[i].execution_count # history[j].execution_count

\* C26 witness: a saved notebook of two cells that ran has been loaded
C26_Witness ==
    /\ ret.op = "loadNotebook"
    /\ ret.loaded
    /\ ret.cells_loaded = 2
    /\ Counted(history) = {1, 2}
    /\ history[1].execution_count # history[2].execution_count
    /\ global_execution_count = 3

\* C27: a loadNotebook of a file saveNotebook wrote leaves execution_context
\* as it was (what is bound stays bound to the same value, and nothing of the
\* file's user_variables is bound by the load), while history becomes the
\* cells of the file and global_execution_count the count of the file.
C27_LoadKeepsContext ==
    [][(ret'.op = "loadNotebook" /\ ret'.loaded)
        => LET data == files[ret'.message.filepath].data
           IN /\ execution_context' = execution_context
              /\ Len(history') = Len(data.cells)
              /\ \A i \in 1..Len(data.cells) :
                    /\ history'[i].cell_type = data.cells[i].cell_type
                    /\ history'[i].source = JoinNL(data.cells[i].source.items)
                    /\ history'[i].cell_type = "code"
                          => history'[i].execution_count = data.cells[i].execution_count
              /\ global_execution_count' = data.global_execution_count]_vars

\* C27 witness: a file that records variables has been loaded into a kernel
\* that binds none, and cells and count are those of the file
C27_Witness ==
    /\ ret.op = "loadNotebook"
    /\ ret.loaded
    /\ DOMAIN files["nb"].data.user_variables # {}
    /\ DOMAIN get_user_variables(execution_context) = {}
    /\ Len(history) = 1
    /\ global_execution_count = 2

C29_OverlappingCallsKeepStreams ==
    /\ []((\A c \in Callers : callers[c].pc = "idle") => sys_stdout = Terminal)
    /\ [][\A c \in Callers :
            (callers[c].pc = "finally" /\ callers'[c].pc = "idle")
                => ret'.stdout = PrintsOf(callers[c].code)]_vars

\* C30: every run of the agent graph comes to END, and comes there from
\* finished; code_attempt never runs more than MAX_ATTEMPTS times, at END it
\* has run between 1 and MAX_ATTEMPTS times, and attempts is the number of its
\* runs throughout.
C30_AgentTerminatesInFinished ==
    /\ <>[](agent.node = "END")
    /\ [][agent'.node = "END" => agent.node \in {"finished", "END"}]_vars
    /\ [](agent.attempts = agent.runs /\ agent.runs <= MAX_ATTEMPTS)
    /\ [](agent.node = "END" => agent.runs >= 1)

\* C30 witness: a run has ended after MAX_ATTEMPTS calls of code_attempt, one
\* of which raised, with the model asking for more every time
C30_Witness ==
    /\ agent.node = "END"
    /\ agent.runs = MAX_ATTEMPTS
    /\ \E i \in 1..Len(agent.outputs) : agent.outputs[i] = "Code attempt error"
    /\ \A i \in 1..Len(agent.outputs) : agent.outputs[i] # "Refining phase error"

====
